---- MODULE Spec2Model ----
(***************************************************************************)
(* Wallet session manager (client/src/hooks/useWallet.tsx), the Foom       *)
(* four-step mint workflow (client/src/pages/FoomPage.tsx) and the WENTGE  *)
(* free-mint page (WentgePage), modelled as state machines.                *)
(*                                                                         *)
(* React state is the model's state.  The application is mounted with      *)
(* createRoot (React 18), so the setState calls of one synchronous block   *)
(* are batched: every block of code between two awaits is one atomic step. *)
(* Every await is a step of its own that either resolves or rejects.       *)
(***************************************************************************)
EXTENDS Integers, Sequences, FiniteSets, TLC

(* ---------------------------------------------------------------------- *)
(* Bounds                                                                  *)
(* ---------------------------------------------------------------------- *)
\* initializeWallet runs started by provider notifications that may be in
\* flight together
MaxRuns == 2
\* checkMintEligibility calls (and loadUserNFTs calls) started by the
\* WentgePage effect that may be in flight at a time
MaxReads == 2

(* ---------------------------------------------------------------------- *)
(* Program constants                                                       *)
(* ---------------------------------------------------------------------- *)
\* JavaScript null, for the string-valued fields (address, provider, signer)
NULL == "null"
\* JavaScript null for the number-valued chainId
NullChain == 0 - 1

HEMI_CHAIN_ID == 43111

\* '0xA867' as its hexadecimal digits
HemiHex == <<10, 8, 6, 7>>
\* '0x1', the chain a wallet is on when it is not on Hemi
OtherHex == <<1>>
ChainHexes == {HemiHex, OtherHex}

HEMI_CHAIN_CONFIG ==
    [chainId |-> HemiHex,
     chainName |-> "Hemi Network",
     rpcUrls |-> <<"https://rpc.hemi.network/rpc">>,
     nativeCurrency |-> [name |-> "ETH", symbol |-> "ETH", decimals |-> 18],
     blockExplorerUrls |-> <<"https://explorer.hemi.network/">>]

\* parseInt(chainId, 16) / BigNumber.from(hex).toNumber()
RECURSIVE parseInt16(_)
parseInt16(ds) ==
    IF Len(ds) = 0 THEN 0
    ELSE 16 * parseInt16(SubSeq(ds, 1, Len(ds) - 1)) + ds[Len(ds)]

\* The account lists the wallet extension can report
Accounts == {"0xA1", "0xB2"}
AccountLists == {<< >>, <<"0xA1">>, <<"0xB2", "0xA1">>}

\* provider error codes
UNRECOGNIZED_CHAIN == 4902
USER_REJECTED == 4001

VARIABLES
    \* ---- Session (useState of WalletProvider)
    isConnected, address, chainId, provider, signer,
    \* ---- the injected wallet provider (window.ethereum)
    hasEthereum,      \* typeof window.ethereum !== 'undefined'
    provAccounts,     \* the accounts the wallet has authorised for the page
    provChain,        \* the wallet's active chain, as hex digits
    provKnowsHemi,    \* the wallet has the Hemi chain configured
    \* ---- asynchronous calls in flight
    probe,            \* checkExistingConnection: its position
    conn,             \* connect(): position, wallet type, result
    sw,               \* switchToHemi() per caller: position, requests sent, error caught
    init,             \* initializeWallet() called by the probe and by connect:
                      \* position, accounts read
    runs,             \* initializeWallet() runs started by the notification
                      \* handlers: how many are at each position
    \* ---- history
    notified,         \* "none": nothing has happened but the page-load probe;
                      \* "empty" / "accounts": only accountsChanged notifications
                      \* have, the last with an empty / a non-empty list;
                      \* "disconnect": the last call or notification was
                      \* disconnect() or the disconnect notification, made on
                      \* a connected Session after a connect had returned;
                      \* "other": something else has
    \* ---- the route that is mounted: "home", "foom" or "wentge"
    page,
    \* ---- FoomPage (useState of the component)
    fIsLoading,       \* isLoading
    mintSteps,        \* the status of steps 1..4
    currentStep,
    hairBalance, maxBalance,   \* TokenBalance: hasBalance, hasAllowance
    fUserNFTs,        \* userNFTs: how many tokens are listed
    stepActions,      \* what the step actions, closures made by
                      \* initializeMintSteps, captured from their render
    flow,             \* the workflow action in flight: position and locals
    \* ---- the chain, for the connected account
    chain,            \* HAIR / MAX balance and allowance to the Foom contract,
                      \* Foom tokens owned
    \* ---- history
    requested,        \* transactions the wallet was asked to sign
    submitted,        \* transactions that were sent
    lastCheck,        \* what the last finished balance check read
    effectCheck,      \* useTokenBalances variant: the checkBalances() run of the connect effect
    fmt,              \* a call of formatTokenAmountWithCommas: its arguments and result
    \* ---- WentgePage (useState of the component)
    wIsLoading,       \* isLoading
    canMint,
    hasCheckedEligibility,
    wUserNFTs,        \* userNFTs: how many tokens are listed
    wChecks,          \* checkMintEligibility calls started by the effect and
                      \* awaiting balanceOf: how many for each account
    wLoads,           \* loadUserNFTs calls started by the effect: the same
    wMint,            \* handleMint: position, the account it was invoked
                      \* for, the account the transaction is sent from, outcome
    \* ---- the chain
    owned             \* which accounts own a WENTGE token

walletVars == <<isConnected, address, chainId, provider, signer,
                hasEthereum, provAccounts, provChain, provKnowsHemi,
                probe, conn, sw, init, runs, notified>>

foomVars == <<fIsLoading, mintSteps, currentStep, hairBalance, maxBalance, fUserNFTs,
              stepActions, flow, chain, requested, submitted, lastCheck, effectCheck, fmt>>

wentgeVars == <<wIsLoading, canMint, hasCheckedEligibility, wUserNFTs, wChecks, wLoads,
                wMint, owned>>
pageVars == <<page, foomVars, wentgeVars>>

vars == <<walletVars, pageVars>>

\* WentgePage's effect (lines 932-937), run by the renders that follow a
\* commit of the Session by initializeWallet. The render of the commit runs
\* it with the contract binding it has, when it has one and the address
\* changed; useContract's effect then makes a new binding (the signer is a
\* new object) and the render of that runs it again. Each run calls
\* checkMintEligibility and loadUserNFTs for the address committed, and each
\* of those sets isLoading before its first await.
wentgeEffectRuns == IF provider # NULL /\ address' # address THEN 2 ELSE 1
wentgeEffect ==
    /\ wChecks["0xA1"] + wChecks["0xB2"] + wentgeEffectRuns <= MaxReads
    /\ wLoads["0xA1"] + wLoads["0xB2"] + wentgeEffectRuns <= MaxReads
    /\ wChecks' = [wChecks EXCEPT ![address'] = @ + wentgeEffectRuns]
    /\ wLoads' = [wLoads EXCEPT ![address'] = @ + wentgeEffectRuns]
    /\ wIsLoading' = TRUE
    /\ UNCHANGED <<canMint, hasCheckedEligibility, wUserNFTs, wMint, owned>>

\* What the mounted page does when a wallet action ends; `committed` says
\* that the action set the Session to a connected one
pageFollows(committed) ==
    /\ UNCHANGED <<page, foomVars>>
    /\ IF page = "wentge" /\ committed THEN wentgeEffect ELSE UNCHANGED wentgeVars

sessionVars == <<isConnected, address, chainId, provider, signer>>
provVars == <<hasEthereum, provAccounts, provChain, provKnowsHemi>>

(* ---------------------------------------------------------------------- *)
(* Callers of initializeWallet and of switchToHemi                         *)
(* ---------------------------------------------------------------------- *)
ProbeCaller == <<"probe", 0>>
ConnectCaller == <<"connect", 0>>
\* A run started by a handler is known by what it holds: << >> while it
\* awaits listAccounts, the accounts it read while it awaits getNetwork
HandlerCallers == {<<"handler", a>> : a \in AccountLists}
InitCallers == {ProbeCaller, ConnectCaller} \cup HandlerCallers

SwCallers == {"connect", "ui"}

IdleInit == [pc |-> "idle", accounts |-> << >>]
IdleSw == [pc |-> "idle", reqs |-> << >>, err |-> 0, result |-> "none"]
IdleConn == [pc |-> "idle", walletType |-> "none", result |-> "none", error |-> "none",
             reqs |-> << >>]

(* ---------------------------------------------------------------------- *)
(* Session updates                                                         *)
(* ---------------------------------------------------------------------- *)
\* The Session as one value
Session ==
    [isConnected |-> isConnected, address |-> address, chainId |-> chainId,
     provider |-> provider, signer |-> signer]

setSession(r) ==
    /\ isConnected' = r.isConnected
    /\ address' = r.address
    /\ chainId' = r.chainId
    /\ provider' = r.provider
    /\ signer' = r.signer

\* A variant that keeps the handles
resetWalletStateKeepsHandles ==
    [isConnected |-> FALSE, address |-> NULL, chainId |-> NullChain,
     provider |-> provider, signer |-> signer]

\* resetWalletState: the Session it leaves
resetWalletState ==
    [isConnected |-> FALSE, address |-> NULL, chainId |-> NullChain,
     provider |-> NULL, signer |-> NULL]

\* A variant that stores no signer
setWalletStateNoSigner(accounts, network) ==
    [isConnected |-> TRUE, address |-> accounts[1], chainId |-> network,
     provider |-> "web3Provider", signer |-> NULL]

\* initializeWallet, lines 152-156: the Session left by the five setters
\* that follow the two reads
setWalletState(accounts, network) ==
    [isConnected |-> TRUE, address |-> accounts[1], chainId |-> network,
     provider |-> "web3Provider", signer |-> "signer"]

\* The isConnected that handleChainChanged reads.  The handlers are
\* registered once, by the mount effect (deps []), so they are the closures
\* of the first render, in which isConnected is still useState(false).
handlerIsConnected == FALSE

(* ---------------------------------------------------------------------- *)
(* Initial state: the page is mounted, the mount effect has run            *)
(* (checkExistingConnection has sent eth_accounts, the listeners are on)   *)
(* ---------------------------------------------------------------------- *)
WalletInit ==
    /\ isConnected = FALSE
    /\ address = NULL
    /\ chainId = NullChain
    /\ provider = NULL
    /\ signer = NULL
    /\ hasEthereum \in BOOLEAN
    /\ provAccounts \in (IF hasEthereum THEN AccountLists ELSE {<< >>})
    /\ provChain \in (IF hasEthereum THEN ChainHexes ELSE {OtherHex})
    /\ provKnowsHemi \in (IF hasEthereum THEN BOOLEAN ELSE {FALSE})
    /\ (provChain = HemiHex => provKnowsHemi)
    /\ probe = (IF hasEthereum THEN "eth_accounts" ELSE "done")
    /\ conn = IdleConn
    /\ sw = [s \in SwCallers |-> IdleSw]
    /\ init = [c \in {ProbeCaller, ConnectCaller} |-> IdleInit]
    /\ runs = [a \in AccountLists |-> 0]
    /\ notified = "none"

(* ---------------------------------------------------------------------- *)
(* Provider notifications reaching the registered handlers                 *)
(* ---------------------------------------------------------------------- *)
RECURSIVE Sum(_, _)
Sum(f, S) == IF S = {} THEN 0 ELSE LET x == CHOOSE y \in S : TRUE IN f[x] + Sum(f, S \ {x})
RunsInFlight == Sum(runs, AccountLists)

\* The position and the accounts held by the call of caller c
InitOf(c) ==
    IF c \in HandlerCallers
    THEN [pc |-> (IF runs[c[2]] = 0 THEN "idle"
                  ELSE IF Len(c[2]) = 0 THEN "listAccounts" ELSE "getNetwork"),
          accounts |-> c[2]]
    ELSE init[c]

\* The call of caller c moves on to hold `accounts` (awaiting getNetwork)
InitMoves(c, accounts) ==
    IF c \in HandlerCallers
    THEN /\ runs' = [runs EXCEPT ![c[2]] = @ - 1, ![accounts] = @ + 1]
         /\ UNCHANGED init
    ELSE /\ init' = [init EXCEPT ![c] = [pc |-> "getNetwork", accounts |-> accounts]]
         /\ UNCHANGED runs

\* The call of caller c is over
InitEnds(c) ==
    IF c \in HandlerCallers
    THEN /\ runs' = [runs EXCEPT ![c[2]] = @ - 1]
         /\ UNCHANGED init
    ELSE /\ init' = [init EXCEPT ![c] = IdleInit]
         /\ UNCHANGED runs

\* initializeWallet up to its first await (lines 137-143): window.ethereum is
\* defined whenever a caller in the model reaches it, a Web3Provider is
\* made and listAccounts is requested
initializeWalletCall(c) == [init EXCEPT ![c] = [pc |-> "listAccounts", accounts |-> << >>]]
\* the same, called by a notification handler
initializeWalletRun == [runs EXCEPT ![<< >>] = @ + 1]

\* The next step in the history of notifications
Notified(kind) ==
    IF kind \in {"empty", "accounts"} /\ notified \notin {"other", "disconnect"} THEN kind
    ELSE IF kind = "disconnect" /\ isConnected /\ conn.result = "returned" THEN "disconnect"
    ELSE "other"

\* handleChainChanged up to its await: setChainId(parseInt(chainId, 16)).
\* Used wherever the wallet changes chain and so emits chainChanged.
handleChainChangedSet(hex) == chainId' = parseInt16(hex)

\* switchToHemi up to its first await (lines 212-221)
SwitchRequest == [method |-> "wallet_switchEthereumChain", params |-> [chainId |-> HEMI_CHAIN_CONFIG.chainId]]
AddRequest == [method |-> "wallet_addEthereumChain", params |-> HEMI_CHAIN_CONFIG]
switchToHemiCall(s) == [sw EXCEPT ![s] = [pc |-> "switch", reqs |-> <<SwitchRequest>>, err |-> 0, result |-> "none"]]

\* handleAccountsChanged: the wallet's account list changes and the
\* notification is delivered
handleAccountsChanged(accounts) ==
    /\ hasEthereum
    /\ accounts # provAccounts
    /\ provAccounts' = accounts
    /\ IF Len(accounts) = 0
       THEN /\ setSession(resetWalletState)
            /\ UNCHANGED runs
       ELSE /\ RunsInFlight < MaxRuns
            /\ runs' = initializeWalletRun
            /\ UNCHANGED sessionVars
    /\ notified' = Notified(IF Len(accounts) = 0 THEN "empty" ELSE "accounts")
    /\ UNCHANGED <<hasEthereum, provChain, provKnowsHemi, probe, conn, sw, init>>
    /\ pageFollows(FALSE)

\* handleChainChanged: the wallet changes chain and the notification is delivered
handleChainChanged(hex) ==
    /\ hasEthereum
    /\ hex # provChain
    /\ (hex = HemiHex => provKnowsHemi)
    /\ provChain' = hex
    /\ handleChainChangedSet(hex)
    /\ IF handlerIsConnected
       THEN /\ RunsInFlight < MaxRuns
            /\ runs' = initializeWalletRun
       ELSE UNCHANGED runs
    /\ notified' = Notified("chain")
    /\ UNCHANGED <<isConnected, address, provider, signer, hasEthereum, provAccounts,
                   provKnowsHemi, probe, conn, sw, init>>
    /\ pageFollows(FALSE)

\* handleDisconnect
handleDisconnect ==
    /\ hasEthereum
    /\ setSession(resetWalletState)
    /\ notified' = Notified("disconnect")
    /\ UNCHANGED <<provVars, probe, conn, sw, init, runs>>
    /\ pageFollows(FALSE)

\* disconnect()
disconnect ==
    /\ setSession(resetWalletState)
    /\ notified' = Notified("disconnect")
    /\ UNCHANGED <<provVars, probe, conn, sw, init, runs>>
    /\ pageFollows(FALSE)

(* ---------------------------------------------------------------------- *)
(* connect: its catch block, and how a call ends                           *)
(* ---------------------------------------------------------------------- *)
\* connect's catch (lines 195-198), as the Session it leaves when entered
\* in Session sess.  The error is re-thrown: see connectThrew.
connectCatchNoReset(sess) == sess
connectCatch(sess) == resetWalletState

connectThrew(error) == [conn EXCEPT !.pc = "idle", !.result = "threw", !.error = error]
connectReturned == [conn EXCEPT !.pc = "idle", !.result = "returned", !.error = "none"]

(* ---------------------------------------------------------------------- *)
(* initializeWallet, from its first await on, for each of its callers      *)
(* ---------------------------------------------------------------------- *)
\* initializeWallet throws: its own catch resets and re-throws (158-162);
\* then the caller's catch runs, if it has one.
initializeWalletThrows(c, error) ==
    /\ InitEnds(c)
    /\ IF c = ConnectCaller
       THEN /\ setSession(connectCatch(resetWalletState))
            /\ conn' = connectThrew(error)
            /\ UNCHANGED probe
       ELSE /\ setSession(resetWalletState)
            /\ probe' = (IF c = ProbeCaller THEN "done" ELSE probe)
            /\ UNCHANGED conn
    /\ UNCHANGED <<provVars, sw, notified>>

\* web3Provider.listAccounts() resolves
initializeWalletListAccounts(c) ==
    /\ InitOf(c).pc = "listAccounts"
    /\ IF Len(provAccounts) = 0
       THEN initializeWalletThrows(c, "no_accounts")
       ELSE /\ InitMoves(c, provAccounts)
            /\ UNCHANGED <<sessionVars, provVars, probe, conn, sw, notified>>
    /\ pageFollows(FALSE)

\* web3Provider.listAccounts() rejects
initializeWalletListAccountsFails(c) ==
    /\ InitOf(c).pc = "listAccounts"
    /\ initializeWalletThrows(c, "read_failed")
    /\ pageFollows(FALSE)

\* web3Provider.getNetwork() resolves: the setters run and the call returns
\* to its caller; connect goes on to call switchToHemi
initializeWalletGetNetwork(c) ==
    /\ InitOf(c).pc = "getNetwork"
    /\ setSession(setWalletState(InitOf(c).accounts, parseInt16(provChain)))
    /\ InitEnds(c)
    /\ probe' = (IF c = ProbeCaller THEN "done" ELSE probe)
    /\ IF c = ConnectCaller
       THEN /\ sw' = switchToHemiCall("connect")
            /\ conn' = [conn EXCEPT !.pc = "switchToHemi",
                                    !.reqs = Append(@, "wallet_switchEthereumChain")]
       ELSE UNCHANGED <<sw, conn>>
    /\ UNCHANGED <<provVars, notified>>
    /\ pageFollows(TRUE)

\* web3Provider.getNetwork() rejects
initializeWalletGetNetworkFails(c) ==
    /\ InitOf(c).pc = "getNetwork"
    /\ initializeWalletThrows(c, "read_failed")
    /\ pageFollows(FALSE)

(* ---------------------------------------------------------------------- *)
(* checkExistingConnection                                                 *)
(* ---------------------------------------------------------------------- *)
\* line 62: the probe goes on to initializeWallet when eth_accounts
\* returned accounts; probeFoundAlways is a variant that always goes on
probeFoundAlways(accounts) == TRUE
probeFound(accounts) == Len(accounts) > 0

\* eth_accounts resolves
checkExistingConnection ==
    /\ probe = "eth_accounts"
    /\ IF probeFound(provAccounts)
       THEN /\ probe' = "initializeWallet"
            /\ init' = initializeWalletCall(ProbeCaller)
            /\ notified' = Notified("probe")
       ELSE /\ probe' = "done"
            /\ UNCHANGED <<init, notified>>
    /\ UNCHANGED <<sessionVars, provVars, conn, sw, runs>>
    /\ pageFollows(FALSE)

\* eth_accounts rejects: the error is logged and swallowed
checkExistingConnectionFails ==
    /\ probe = "eth_accounts"
    /\ probe' = "done"
    /\ UNCHANGED <<sessionVars, provVars, conn, sw, init, runs, notified>>
    /\ pageFollows(FALSE)

(* ---------------------------------------------------------------------- *)
(* connect                                                                 *)
(* ---------------------------------------------------------------------- *)
WalletTypes == {"metamask", "walletconnect"}

\* connect, line 170: the wallet type whose branch talks to the provider
connectSupportsAny(walletType) == TRUE
connectSupports(walletType) == walletType = "metamask"

\* connect(walletType) up to its first await or its throw
connect(walletType) ==
    /\ conn.pc = "idle"
    /\ init[ConnectCaller].pc = "idle"
    /\ sw["connect"].pc = "idle"
    /\ notified' = Notified("connect")
    /\ IF connectSupports(walletType) /\ hasEthereum
       THEN /\ conn' = [pc |-> "eth_requestAccounts", walletType |-> walletType,
                        result |-> "none", error |-> "none",
                        reqs |-> <<"eth_requestAccounts">>]
            /\ UNCHANGED sessionVars
       ELSE /\ conn' = [pc |-> "idle", walletType |-> walletType,
                        result |-> "threw",
                        error |-> (IF connectSupports(walletType) THEN "no_provider"
                                   ELSE "not_implemented"),
                        reqs |-> << >>]
            /\ setSession(connectCatch(Session))
    /\ UNCHANGED <<provVars, probe, sw, init, runs>>
    /\ pageFollows(FALSE)

\* eth_requestAccounts resolves: the user has authorised accounts (a wallet
\* that had none authorised now reports some, and says so with
\* accountsChanged); connect calls initializeWallet
connectRequestAccounts(accounts) ==
    /\ conn.pc = "eth_requestAccounts"
    /\ Len(accounts) > 0
    /\ conn' = [conn EXCEPT !.pc = "initializeWallet"]
    /\ IF Len(provAccounts) = 0
       THEN /\ provAccounts' = accounts
            /\ RunsInFlight < MaxRuns
            /\ runs' = initializeWalletRun
       ELSE UNCHANGED <<provAccounts, runs>>
    /\ init' = initializeWalletCall(ConnectCaller)
    /\ UNCHANGED <<sessionVars, hasEthereum, provChain, provKnowsHemi, probe, sw, notified>>
    /\ pageFollows(FALSE)

\* eth_requestAccounts rejects (the user refuses, code 4001)
connectRequestAccountsFails ==
    /\ conn.pc = "eth_requestAccounts"
    /\ conn' = connectThrew("rejected")
    /\ setSession(connectCatch(Session))
    /\ UNCHANGED <<provVars, probe, sw, init, runs, notified>>
    /\ pageFollows(FALSE)

(* ---------------------------------------------------------------------- *)
(* switchToHemi, for connect and for the Switch Network button             *)
(* ---------------------------------------------------------------------- *)
\* How a switchToHemi call ends.  connect catches what it throws and
\* returns normally (lines 183-188); handleSwitchNetwork shows a toast.
switchToHemiEndsRethrows(s, result) ==
    /\ IF s = "connect"
       THEN conn' = (IF result = "threw" THEN connectThrew("switch_failed")
                     ELSE connectReturned)
       ELSE UNCHANGED conn
switchToHemiEnds(s, result) ==
    /\ IF s = "connect" THEN conn' = connectReturned ELSE UNCHANGED conn

\* handleSwitchNetwork -> switchToHemi(), up to its first await; the
\* button is rendered while the Session is connected on another chain
\* (WalletConnection.tsx, lines 139-222)
switchToHemi ==
    /\ isConnected /\ chainId # HEMI_CHAIN_ID
    /\ sw["ui"].pc = "idle"
    /\ notified' = Notified("switch")
    /\ IF hasEthereum
       THEN sw' = switchToHemiCall("ui")
       ELSE sw' = [sw EXCEPT !["ui"] = [pc |-> "idle", reqs |-> << >>, err |-> 0,
                                        result |-> "threw"]]
    /\ UNCHANGED <<sessionVars, provVars, probe, conn, init, runs>>
    /\ pageFollows(FALSE)

\* wallet_switchEthereumChain resolves: the wallet is on Hemi (and says so
\* with chainChanged if it was not); switchToHemi returns
switchToHemiSwitched(s) ==
    /\ sw[s].pc = "switch"
    /\ provKnowsHemi
    /\ provChain' = HemiHex
    /\ IF provChain # HemiHex
       THEN /\ handleChainChangedSet(HemiHex)
            /\ UNCHANGED <<isConnected, address, provider, signer>>
       ELSE UNCHANGED sessionVars
    /\ sw' = [sw EXCEPT ![s].pc = "idle", ![s].result = "returned"]
    /\ switchToHemiEnds(s, "returned")
    /\ UNCHANGED <<hasEthereum, provAccounts, provKnowsHemi, probe, init, runs, notified>>
    /\ pageFollows(FALSE)

\* wallet_switchEthereumChain rejects with 4902: wallet_addEthereumChain is
\* requested with HEMI_CHAIN_CONFIG
switchToHemiUnrecognized(s) ==
    /\ sw[s].pc = "switch"
    /\ ~provKnowsHemi
    /\ sw' = [sw EXCEPT ![s].pc = "add", ![s].err = UNRECOGNIZED_CHAIN,
                        ![s].reqs = Append(@, AddRequest)]
    /\ conn' = (IF s = "connect"
                THEN [conn EXCEPT !.reqs = Append(@, "wallet_addEthereumChain")]
                ELSE conn)
    /\ UNCHANGED <<sessionVars, provVars, probe, init, runs, notified>>
    /\ pageFollows(FALSE)

\* wallet_switchEthereumChain rejects with any other error:
\* 'Failed to switch to Hemi network' is thrown
switchToHemiSwitchFails(s) ==
    /\ sw[s].pc = "switch"
    /\ sw' = [sw EXCEPT ![s].pc = "idle", ![s].err = USER_REJECTED, ![s].result = "threw"]
    /\ switchToHemiEnds(s, "threw")
    /\ UNCHANGED <<sessionVars, provVars, probe, init, runs, notified>>
    /\ pageFollows(FALSE)

\* A variant that asks for the switch again once the chain is added
switchToHemiAddedRetry(s, switched) ==
    /\ sw[s].pc = "add"
    /\ provKnowsHemi' = TRUE
    /\ sw' = [sw EXCEPT ![s].pc = "switch", ![s].reqs = Append(@, SwitchRequest)]
    /\ UNCHANGED <<sessionVars, hasEthereum, provAccounts, provChain, probe, conn, init,
                   runs, notified>>
    /\ pageFollows(FALSE)

\* wallet_addEthereumChain resolves: the wallet knows Hemi, and has or has
\* not moved to it; switchToHemi returns without asking for the switch again
switchToHemiAdded(s, switched) ==
    /\ sw[s].pc = "add"
    /\ provKnowsHemi' = TRUE
    /\ IF switched /\ provChain # HemiHex
       THEN /\ provChain' = HemiHex
            /\ handleChainChangedSet(HemiHex)
            /\ UNCHANGED <<isConnected, address, provider, signer>>
       ELSE UNCHANGED <<provChain, sessionVars>>
    /\ sw' = [sw EXCEPT ![s].pc = "idle", ![s].result = "returned"]
    /\ switchToHemiEnds(s, "returned")
    /\ UNCHANGED <<hasEthereum, provAccounts, probe, init, runs, notified>>
    /\ pageFollows(FALSE)

\* wallet_addEthereumChain rejects: 'Failed to add Hemi network to wallet'
\* is thrown
switchToHemiAddFails(s) ==
    /\ sw[s].pc = "add"
    /\ sw' = [sw EXCEPT ![s].pc = "idle", ![s].result = "threw"]
    /\ switchToHemiEnds(s, "threw")
    /\ UNCHANGED <<sessionVars, provVars, probe, init, runs, notified>>
    /\ pageFollows(FALSE)

\* ---- WentgePage as it mounts
NoError == [code |-> 0, message |-> << >>]
IdleMint == [pc |-> "idle", caller |-> NULL, sender |-> NULL, outcome |-> "none",
             error |-> NoError, shown |-> << >>]

\* useState initial values
WentgeMounted ==
    /\ wIsLoading = FALSE
    /\ canMint = FALSE
    /\ hasCheckedEligibility = FALSE
    /\ wUserNFTs = 0
    /\ wMint = IdleMint

\* The page is not the mounted route
WentgeIdle ==
    /\ WentgeMounted
    /\ wChecks = [a \in Accounts |-> 0]
    /\ wLoads = [a \in Accounts |-> 0]
    /\ owned = [a \in Accounts |-> FALSE]

(* ====================================================================== *)
(* FoomPage: the four-step mint workflow                                   *)
(* ====================================================================== *)
\* The fees the Foom contract reports, in whole tokens
HAIR_TKN_FEE == 3000
MAX_TKN_FEE == 100

\* Amounts an account may hold or have approved: none, the fee, twice the fee
Amounts(fee) == {0, fee, 2 * fee}

Steps == 1..4
CheckPcs == {"HAIR_TKN_FEE", "MAX_TKN_FEE", "hair.balanceOf", "hair.allowance",
             "max.balanceOf", "max.allowance"}

IdleFlow == [pc |-> "idle", caller |-> "none", hairFee |-> 0, maxFee |-> 0,
             hairBal |-> 0, hairAllow |-> 0, maxBal |-> 0, reads |-> 0,
             fetched |-> FALSE, report |-> "none"]
NoCheck == [done |-> FALSE, caller |-> "none", hairFee |-> 0, maxFee |-> 0,
            hairAllow |-> 0, maxAllow |-> 0]

\* No amount is being formatted
NoFormat == [amount |-> [kind |-> "none"], displayDecimals |-> 0, out |-> << >>, done |-> FALSE]

\* useState initial values, and the steps made by the mount effect
\* (initializeMintSteps)
FoomMounted ==
    /\ fIsLoading = FALSE
    /\ mintSteps = [i \in Steps |-> "pending"]
    /\ currentStep = 0
    /\ hairBalance = [hasBalance |-> FALSE, hasAllowance |-> FALSE]
    /\ maxBalance = [hasBalance |-> FALSE, hasAllowance |-> FALSE]
    /\ fUserNFTs = 0
    /\ stepActions = [maxHasAllowance |-> FALSE, bound |-> FALSE]
    /\ flow = IdleFlow
    /\ requested = {}
    /\ submitted = {}
    /\ lastCheck = NoCheck
    /\ effectCheck = "idle"
    /\ fmt = NoFormat

\* The page is not the mounted route
FoomIdle ==
    /\ FoomMounted
    /\ chain = [hairBal |-> 0, hairAllow |-> 0, maxBal |-> 0, maxAllow |-> 0, nfts |-> 0]

\* useContract: a contract binding exists once the Session holds a provider
foomContract == provider # NULL
hairContract == provider # NULL
maxContract == provider # NULL

\* updateStepStatus
updateStepStatus(steps, stepId, status) == [steps EXCEPT ![stepId] = status]

canStartMinting == isConnected /\ chainId = HEMI_CHAIN_ID /\ ~fIsLoading
hasStartedMinting == \E i \in Steps : mintSteps[i] # "pending"

\* The button of a step is rendered, and enabled (lines 621-625)
stepButton(stepId) ==
    /\ hasStartedMinting
    /\ mintSteps[stepId] = "pending"
    /\ currentStep = stepId - 1
    /\ ~fIsLoading

\* checkTokenBalances, lines 162-177: the steps and the current step it
\* leaves, given the steps before it and whether each allowance covers its fee
checkDecisionSkipsNothing(steps, hairOk, maxOk) ==
    [steps |-> updateStepStatus(updateStepStatus(steps, 1, "complete"), 2, "pending"),
     currentStep |-> 1]
checkDecisionSkipsMax(steps, hairOk, maxOk) ==
    LET s1 == updateStepStatus(steps, 1, "complete")
        s3 == IF maxOk THEN updateStepStatus(s1, 3, "complete") ELSE s1
    IN  IF ~hairOk
        THEN [steps |-> updateStepStatus(s3, 2, "pending"), currentStep |-> 1]
        ELSE IF ~maxOk
        THEN [steps |-> updateStepStatus(updateStepStatus(s1, 2, "complete"), 3, "pending"),
              currentStep |-> 2]
        ELSE [steps |-> updateStepStatus(updateStepStatus(s3, 2, "complete"), 4, "pending"),
              currentStep |-> 3]
\* A variant that leaves step 1 as the check's start made it
checkDecisionLeavesActive(steps, hairOk, maxOk) ==
    IF ~hairOk
    THEN [steps |-> updateStepStatus(steps, 2, "pending"), currentStep |-> 1]
    ELSE IF ~maxOk
    THEN [steps |-> updateStepStatus(updateStepStatus(steps, 2, "complete"), 3, "pending"),
          currentStep |-> 2]
    ELSE [steps |-> updateStepStatus(updateStepStatus(updateStepStatus(steps,
                        2, "complete"), 3, "complete"), 4, "pending"),
          currentStep |-> 3]
checkDecision(steps, hairOk, maxOk) ==
    LET s1 == updateStepStatus(steps, 1, "complete") IN
    IF ~hairOk
    THEN [steps |-> updateStepStatus(s1, 2, "pending"), currentStep |-> 1]
    ELSE IF ~maxOk
    THEN [steps |-> updateStepStatus(updateStepStatus(s1, 2, "complete"), 3, "pending"),
          currentStep |-> 2]
    ELSE [steps |-> updateStepStatus(updateStepStatus(updateStepStatus(s1,
                        2, "complete"), 3, "complete"), 4, "pending"),
          currentStep |-> 3]

\* checkTokenBalances up to its first await (lines 130-137), called by
\* `caller`; `bound` tells whether the contracts and the address of the
\* render the called closure belongs to are set
checkTokenBalancesCall(caller, steps, fetched, bound) ==
    IF bound
    THEN /\ fIsLoading' = TRUE
         /\ mintSteps' = updateStepStatus(steps, 1, "active")
         /\ flow' = [IdleFlow EXCEPT !.pc = "HAIR_TKN_FEE", !.caller = caller,
                                     !.fetched = fetched]
    ELSE /\ fIsLoading' = FALSE
         /\ mintSteps' = steps
         /\ flow' = IdleFlow

\* startMintProcess, lines 413-429: the toast of its early return, "none"
\* when it goes on; startMintProcessReportNoNetwork is a variant without
\* the network test
startMintProcessReportNoNetwork == IF ~isConnected THEN "walletRequired" ELSE "none"
startMintProcessReport ==
    IF ~isConnected THEN "walletRequired"
    ELSE IF chainId # HEMI_CHAIN_ID THEN "wrongNetwork"
    ELSE "none"

\* startMintProcess, the function (lines 412-433), up to its first await
startMintProcessCall ==
    /\ page = "foom"
    /\ flow.pc = "idle"
    /\ IF startMintProcessReport # "none"
       THEN /\ flow' = [IdleFlow EXCEPT !.caller = "start", !.report = startMintProcessReport]
            /\ UNCHANGED <<fIsLoading, mintSteps, stepActions>>
       ELSE \* initializeMintSteps: fresh steps, whose actions are this render's closures
            /\ stepActions' = [maxHasAllowance |-> maxBalance.hasAllowance,
                                bound |-> (hairContract /\ maxContract /\ foomContract)]
            /\ checkTokenBalancesCall("start", [i \in Steps |-> "pending"], FALSE,
                                      hairContract /\ maxContract /\ address # NULL /\ foomContract)
    /\ UNCHANGED <<walletVars, page, wentgeVars, fmt, effectCheck, currentStep, hairBalance, maxBalance, fUserNFTs,
                   chain, requested, submitted, lastCheck>>

\* startMintProcess called by the Start button (rendered while no step has
\* left pending, enabled by canStartMinting)
startMintProcess ==
    /\ ~hasStartedMinting
    /\ canStartMinting
    /\ startMintProcessCall

\* checkTokenBalances: one of its first five reads resolves
checkTokenBalancesReads ==
    /\ flow.pc \in CheckPcs \ {"max.allowance"}
    /\ flow' =
         CASE flow.pc = "HAIR_TKN_FEE" ->
                [flow EXCEPT !.pc = "MAX_TKN_FEE", !.hairFee = HAIR_TKN_FEE]
           [] flow.pc = "MAX_TKN_FEE" ->
                [flow EXCEPT !.pc = "hair.balanceOf", !.maxFee = MAX_TKN_FEE]
           [] flow.pc = "hair.balanceOf" ->
                [flow EXCEPT !.pc = "hair.allowance", !.hairBal = chain.hairBal]
           [] flow.pc = "hair.allowance" ->
                [flow EXCEPT !.pc = "max.balanceOf", !.hairAllow = chain.hairAllow]
           [] flow.pc = "max.balanceOf" ->
                [flow EXCEPT !.pc = "max.allowance", !.maxBal = chain.maxBal]
    /\ hairBalance' =
         IF flow.pc = "hair.allowance"
         THEN [hasBalance |-> flow.hairBal >= flow.hairFee,
               hasAllowance |-> chain.hairAllow >= flow.hairFee]
         ELSE hairBalance
    /\ UNCHANGED <<walletVars, page, wentgeVars, fmt, effectCheck, fIsLoading, mintSteps, currentStep, maxBalance,
                   fUserNFTs, stepActions, chain, requested, submitted, lastCheck>>

\* checkTokenBalances: its last read resolves; the steps are set from the
\* two allowances just read and the function returns (to executeMinnt, whose
\* finally also clears isLoading, when that is the caller)
checkTokenBalancesDone ==
    /\ flow.pc = "max.allowance"
    /\ LET maxAllow == chain.maxAllow
           d == checkDecision(mintSteps, flow.hairAllow >= flow.hairFee,
                              maxAllow >= flow.maxFee)
       IN /\ maxBalance' = [hasBalance |-> flow.maxBal >= flow.maxFee,
                            hasAllowance |-> maxAllow >= flow.maxFee]
          /\ mintSteps' = d.steps
          /\ currentStep' = d.currentStep
          /\ lastCheck' = [done |-> TRUE, caller |-> flow.caller,
                           hairFee |-> flow.hairFee, maxFee |-> flow.maxFee,
                           hairAllow |-> flow.hairAllow, maxAllow |-> maxAllow]
    /\ fIsLoading' = FALSE
    /\ flow' = [IdleFlow EXCEPT !.caller = flow.caller, !.fetched = flow.fetched]
    /\ UNCHANGED <<walletVars, page, wentgeVars, fmt, effectCheck, hairBalance, fUserNFTs, stepActions, chain,
                   requested, submitted>>

\* checkTokenBalances: a read rejects; step 1 is marked error
checkTokenBalancesFails ==
    /\ flow.pc \in CheckPcs
    /\ mintSteps' = updateStepStatus(mintSteps, 1, "error")
    /\ fIsLoading' = FALSE
    /\ flow' = [IdleFlow EXCEPT !.caller = flow.caller, !.fetched = flow.fetched]
    /\ UNCHANGED <<walletVars, page, wentgeVars, fmt, effectCheck, currentStep, hairBalance, maxBalance, fUserNFTs,
                   stepActions, chain, requested, submitted, lastCheck>>

\* What a step action leaves when it throws (its catch and finally)
stepActionThrows(stepId) ==
    /\ mintSteps' = updateStepStatus(mintSteps, stepId, "error")
    /\ fIsLoading' = FALSE
    /\ flow' = [IdleFlow EXCEPT !.caller = flow.caller]

\* approveHair, lines 218-228: the steps and the current step it leaves once
\* the approval is confirmed; maxHasAllowance is the maxBalance.hasAllowance
\* of the closure
\* A variant that offers the mint next whatever step 3 is
approveHairNextToMint(steps, maxHasAllowance) ==
    [steps |-> updateStepStatus(updateStepStatus(steps, 2, "complete"), 4, "pending"),
     currentStep |-> 3]
approveHairNext(steps, maxHasAllowance) ==
    LET s2 == updateStepStatus(steps, 2, "complete") IN
    IF ~maxHasAllowance
    THEN [steps |-> updateStepStatus(s2, 3, "pending"), currentStep |-> 2]
    ELSE [steps |-> updateStepStatus(updateStepStatus(s2, 3, "complete"), 4, "pending"),
          currentStep |-> 3]

\* The amount passed to approve(CONTRACTS.FOOM.address, amount), given the
\* fee read from the Foom contract (lines 209 and 274)
approveAmountTwice(fee) == 2 * fee
approveAmount(fee) == fee

\* approveHair: the button of step 2; up to its first await
approveHair ==
    /\ page = "foom"
    /\ stepButton(2)
    /\ flow.pc = "idle"
    /\ stepActions.bound
    /\ fIsLoading' = TRUE
    /\ mintSteps' = updateStepStatus(mintSteps, 2, "active")
    /\ flow' = [IdleFlow EXCEPT !.pc = "approveHair.fee", !.caller = "approveHair"]
    /\ UNCHANGED <<walletVars, page, wentgeVars, fmt, effectCheck, currentStep, hairBalance, maxBalance, fUserNFTs,
                   stepActions, chain, requested, submitted, lastCheck>>

\* HAIR_TKN_FEE() resolves; hairContract.approve(FOOM, hairFee) is called
approveHairFee ==
    /\ flow.pc = "approveHair.fee"
    /\ flow' = [flow EXCEPT !.pc = "approveHair.approve", !.hairFee = HAIR_TKN_FEE]
    /\ requested' = requested \cup {"approveHair"}
    /\ UNCHANGED <<walletVars, page, wentgeVars, fmt, effectCheck, fIsLoading, mintSteps, currentStep, hairBalance,
                   maxBalance, fUserNFTs, stepActions, chain, submitted, lastCheck>>

\* approve() resolves: the transaction is sent; tx.wait() is called
approveHairSent ==
    /\ flow.pc = "approveHair.approve"
    /\ flow' = [flow EXCEPT !.pc = "approveHair.wait"]
    /\ submitted' = submitted \cup {"approveHair"}
    /\ UNCHANGED <<walletVars, page, wentgeVars, fmt, effectCheck, fIsLoading, mintSteps, currentStep, hairBalance,
                   maxBalance, fUserNFTs, stepActions, chain, requested, lastCheck>>

\* tx.wait() resolves: the allowance is the approved amount on chain
approveHairConfirmed ==
    /\ flow.pc = "approveHair.wait"
    /\ chain' = [chain EXCEPT !.hairAllow = approveAmount(flow.hairFee)]
    /\ LET n == approveHairNext(mintSteps, stepActions.maxHasAllowance)
       IN /\ mintSteps' = n.steps
          /\ currentStep' = n.currentStep
    /\ fIsLoading' = FALSE
    /\ flow' = [IdleFlow EXCEPT !.caller = "approveHair"]
    /\ UNCHANGED <<walletVars, page, wentgeVars, fmt, effectCheck, hairBalance, maxBalance, fUserNFTs, stepActions,
                   requested, submitted, lastCheck>>

\* the fee read, approve() (the user refuses, code 4001) or tx.wait() rejects
approveHairFails ==
    /\ flow.pc \in {"approveHair.fee", "approveHair.approve", "approveHair.wait"}
    /\ stepActionThrows(2)
    /\ UNCHANGED <<walletVars, page, wentgeVars, fmt, effectCheck, currentStep, hairBalance, maxBalance, fUserNFTs,
                   stepActions, chain, requested, submitted, lastCheck>>

\* approveMax: the button of step 3; up to its first await
approveMax ==
    /\ page = "foom"
    /\ stepButton(3)
    /\ flow.pc = "idle"
    /\ stepActions.bound
    /\ fIsLoading' = TRUE
    /\ mintSteps' = updateStepStatus(mintSteps, 3, "active")
    /\ flow' = [IdleFlow EXCEPT !.pc = "approveMax.fee", !.caller = "approveMax"]
    /\ UNCHANGED <<walletVars, page, wentgeVars, fmt, effectCheck, currentStep, hairBalance, maxBalance, fUserNFTs,
                   stepActions, chain, requested, submitted, lastCheck>>

\* MAX_TKN_FEE() resolves; maxContract.approve(FOOM, maxFee) is called
approveMaxFee ==
    /\ flow.pc = "approveMax.fee"
    /\ flow' = [flow EXCEPT !.pc = "approveMax.approve", !.maxFee = MAX_TKN_FEE]
    /\ requested' = requested \cup {"approveMax"}
    /\ UNCHANGED <<walletVars, page, wentgeVars, fmt, effectCheck, fIsLoading, mintSteps, currentStep, hairBalance,
                   maxBalance, fUserNFTs, stepActions, chain, submitted, lastCheck>>

\* approve() resolves: the transaction is sent; tx.wait() is called
approveMaxSent ==
    /\ flow.pc = "approveMax.approve"
    /\ flow' = [flow EXCEPT !.pc = "approveMax.wait"]
    /\ submitted' = submitted \cup {"approveMax"}
    /\ UNCHANGED <<walletVars, page, wentgeVars, fmt, effectCheck, fIsLoading, mintSteps, currentStep, hairBalance,
                   maxBalance, fUserNFTs, stepActions, chain, requested, lastCheck>>

\* tx.wait() resolves (lines 283-285)
approveMaxConfirmed ==
    /\ flow.pc = "approveMax.wait"
    /\ chain' = [chain EXCEPT !.maxAllow = approveAmount(flow.maxFee)]
    /\ mintSteps' = updateStepStatus(updateStepStatus(mintSteps, 3, "complete"), 4, "pending")
    /\ currentStep' = 3
    /\ fIsLoading' = FALSE
    /\ flow' = [IdleFlow EXCEPT !.caller = "approveMax"]
    /\ UNCHANGED <<walletVars, page, wentgeVars, fmt, effectCheck, hairBalance, maxBalance, fUserNFTs, stepActions,
                   requested, submitted, lastCheck>>

\* the fee read, approve() or tx.wait() rejects
approveMaxFails ==
    /\ flow.pc \in {"approveMax.fee", "approveMax.approve", "approveMax.wait"}
    /\ stepActionThrows(3)
    /\ UNCHANGED <<walletVars, page, wentgeVars, fmt, effectCheck, currentStep, hairBalance, maxBalance, fUserNFTs,
                   stepActions, chain, requested, submitted, lastCheck>>

\* The Foom contract's mint() succeeds when it can take both fees from the
\* caller: the caller holds them and has approved them
mintCanSucceed ==
    /\ chain.hairBal >= HAIR_TKN_FEE /\ chain.hairAllow >= HAIR_TKN_FEE
    /\ chain.maxBal >= MAX_TKN_FEE /\ chain.maxAllow >= MAX_TKN_FEE

\* executeMinnt: the button of step 4; up to its first await (mint() is called)
executeMinnt ==
    /\ page = "foom"
    /\ stepButton(4)
    /\ flow.pc = "idle"
    /\ stepActions.bound
    /\ fIsLoading' = TRUE
    /\ mintSteps' = updateStepStatus(mintSteps, 4, "active")
    /\ flow' = [IdleFlow EXCEPT !.pc = "mint.mint", !.caller = "mint"]
    /\ requested' = requested \cup {"mint"}
    /\ UNCHANGED <<walletVars, page, wentgeVars, fmt, effectCheck, currentStep, hairBalance, maxBalance, fUserNFTs,
                   stepActions, chain, submitted, lastCheck>>

\* mint() resolves: the transaction is sent; tx.wait() is called
executeMinntSent ==
    /\ flow.pc = "mint.mint"
    /\ mintCanSucceed
    /\ flow' = [flow EXCEPT !.pc = "mint.wait"]
    /\ submitted' = submitted \cup {"mint"}
    /\ UNCHANGED <<walletVars, page, wentgeVars, fmt, effectCheck, fIsLoading, mintSteps, currentStep, hairBalance,
                   maxBalance, fUserNFTs, stepActions, chain, requested, lastCheck>>

\* tx.wait() resolves: both fees are taken and burnt, a token is minted;
\* step 4 is complete and loadUserNFTs() is called (its balanceOf is read)
executeMinntConfirmed ==
    /\ flow.pc = "mint.wait"
    /\ mintCanSucceed
    /\ chain' = [chain EXCEPT !.hairBal = @ - HAIR_TKN_FEE, !.hairAllow = @ - HAIR_TKN_FEE,
                              !.maxBal = @ - MAX_TKN_FEE, !.maxAllow = @ - MAX_TKN_FEE,
                              !.nfts = @ + 1]
    /\ mintSteps' = updateStepStatus(mintSteps, 4, "complete")
    /\ flow' = [flow EXCEPT !.pc = "nfts.balanceOf"]
    /\ UNCHANGED <<walletVars, page, wentgeVars, fmt, effectCheck, fIsLoading, currentStep, hairBalance, maxBalance,
                   fUserNFTs, stepActions, requested, submitted, lastCheck>>

\* mint() (the user refuses, or the call would revert) or tx.wait() rejects
executeMinntFails ==
    /\ flow.pc \in {"mint.mint", "mint.wait"}
    /\ stepActionThrows(4)
    /\ UNCHANGED <<walletVars, page, wentgeVars, fmt, effectCheck, currentStep, hairBalance, maxBalance, fUserNFTs,
                   stepActions, chain, requested, submitted, lastCheck>>

\* (executeMinnt is the closure stored by initializeMintSteps, and the
\* loadUserNFTs and checkTokenBalances it calls are those of its render)
\* loadUserNFTs, called by executeMinnt: balanceOf resolves; three reads
\* follow for each token owned
loadUserNFTsBalance ==
    /\ flow.pc = "nfts.balanceOf"
    /\ IF chain.nfts = 0
       THEN /\ fUserNFTs' = 0
            /\ checkTokenBalancesCall("mint", mintSteps, TRUE, stepActions.bound)
       ELSE /\ flow' = [flow EXCEPT !.pc = "nfts.tokens", !.reads = 3 * chain.nfts]
            /\ UNCHANGED <<fUserNFTs, fIsLoading, mintSteps>>
    /\ UNCHANGED <<walletVars, page, wentgeVars, fmt, effectCheck, currentStep, hairBalance, maxBalance, stepActions,
                   chain, requested, submitted, lastCheck>>

\* loadUserNFTs: tokenOfOwnerByIndex, tokenURI or imageURI resolves; after
\* the last of them setUserNFTs runs and executeMinnt calls checkTokenBalances
loadUserNFTsReads ==
    /\ flow.pc = "nfts.tokens"
    /\ IF flow.reads > 1
       THEN /\ flow' = [flow EXCEPT !.reads = @ - 1]
            /\ UNCHANGED <<fUserNFTs, fIsLoading, mintSteps>>
       ELSE /\ fUserNFTs' = chain.nfts
            /\ checkTokenBalancesCall("mint", mintSteps, TRUE, stepActions.bound)
    /\ UNCHANGED <<walletVars, page, wentgeVars, fmt, effectCheck, currentStep, hairBalance, maxBalance, stepActions,
                   chain, requested, submitted, lastCheck>>

\* loadUserNFTs: a read rejects; the error is logged, the list is left as
\* it was, and executeMinnt calls checkTokenBalances
loadUserNFTsFails ==
    /\ flow.pc \in {"nfts.balanceOf", "nfts.tokens"}
    /\ checkTokenBalancesCall("mint", mintSteps, FALSE, stepActions.bound)
    /\ UNCHANGED <<walletVars, page, wentgeVars, fmt, effectCheck, currentStep, hairBalance, maxBalance, fUserNFTs,
                   stepActions, chain, requested, submitted, lastCheck>>

\* A Session connected on Hemi, as connect or the page-load probe leaves it
WalletConnectedOnHemi ==
    /\ isConnected = TRUE
    /\ address = "0xA1"
    /\ chainId = HEMI_CHAIN_ID
    /\ provider = "web3Provider"
    /\ signer = "signer"
    /\ hasEthereum = TRUE
    /\ provAccounts = <<"0xA1">>
    /\ provChain = HemiHex
    /\ provKnowsHemi = TRUE
    /\ probe = "done"
    /\ conn = IdleConn
    /\ sw = [s \in SwCallers |-> IdleSw]
    /\ init = [c \in {ProbeCaller, ConnectCaller} |-> IdleInit]
    /\ runs = [a \in AccountLists |-> 0]
    /\ notified = "other"

InitFoom ==
    /\ WalletConnectedOnHemi
    /\ page = "foom"
    /\ WentgeIdle
    /\ FoomMounted
    /\ chain \in [hairBal : Amounts(HAIR_TKN_FEE), hairAllow : Amounts(HAIR_TKN_FEE),
                  maxBal : Amounts(MAX_TKN_FEE), maxAllow : Amounts(MAX_TKN_FEE),
                  nfts : {0}]

NextFoom ==
    \/ startMintProcess
    \/ checkTokenBalancesReads
    \/ checkTokenBalancesDone
    \/ checkTokenBalancesFails
    \/ approveHair
    \/ approveHairFee
    \/ approveHairSent
    \/ approveHairConfirmed
    \/ approveHairFails
    \/ approveMax
    \/ approveMaxFee
    \/ approveMaxSent
    \/ approveMaxConfirmed
    \/ approveMaxFails
    \/ executeMinnt
    \/ executeMinntSent
    \/ executeMinntConfirmed
    \/ executeMinntFails
    \/ loadUserNFTsBalance
    \/ loadUserNFTsReads
    \/ loadUserNFTsFails

SpecFoom == InitFoom /\ [][NextFoom]_vars

\* The Foom page while the Session can be reset under it: by the Disconnect
\* button of the header and by the provider's disconnect notification
NextFoomSession ==
    \/ NextFoom
    \/ disconnect
    \/ handleDisconnect

SpecFoomSession == InitFoom /\ [][NextFoomSession]_vars

(* ====================================================================== *)
(* FoomPage built on the useTokenBalances hook: from mount to the decision *)
(* its balance check takes                                                 *)
(* ====================================================================== *)
\* useTokenBalances.checkBalances, as the TokenStatus its setHairBalance /
\* setMaxBalance store from the balance, the allowance and the fee it read
tokenStatus(bal, allow, fee) == [hasBalance |-> bal >= fee, hasAllowance |-> allow >= fee]

\* The connect effect of the page: the wallet is connected and the contracts
\* exist, so it calls checkBalances(), which goes to await its reads
hookConnectEffect ==
    /\ page = "foom"
    /\ effectCheck = "idle"
    /\ isConnected /\ foomContract /\ hairContract /\ maxContract /\ address # NULL
    /\ effectCheck' = "hair"
    /\ UNCHANGED <<walletVars, page, wentgeVars, fmt, fIsLoading, mintSteps, currentStep,
                   hairBalance, maxBalance, fUserNFTs, stepActions, flow, chain,
                   requested, submitted, lastCheck>>

\* checkBalances of the effect: the fees and the HAIR balance and allowance
\* are read; setHairBalance
hookEffectReadsHair ==
    /\ effectCheck = "hair"
    /\ hairBalance' = tokenStatus(chain.hairBal, chain.hairAllow, HAIR_TKN_FEE)
    /\ effectCheck' = "max"
    /\ UNCHANGED <<walletVars, page, wentgeVars, fmt, fIsLoading, mintSteps, currentStep,
                   maxBalance, fUserNFTs, stepActions, flow, chain, requested, submitted,
                   lastCheck>>

\* checkBalances of the effect: the MAX balance and allowance are read;
\* setMaxBalance, and the run is over
hookEffectReadsMax ==
    /\ effectCheck = "max"
    /\ maxBalance' = tokenStatus(chain.maxBal, chain.maxAllow, MAX_TKN_FEE)
    /\ effectCheck' = "done"
    /\ UNCHANGED <<walletVars, page, wentgeVars, fmt, fIsLoading, mintSteps, currentStep,
                   hairBalance, fUserNFTs, stepActions, flow, chain, requested, submitted,
                   lastCheck>>

\* checkBalances of the effect: a read rejects; the error is logged
hookEffectFails ==
    /\ effectCheck \in {"hair", "max"}
    /\ effectCheck' = "done"
    /\ UNCHANGED <<walletVars, page, wentgeVars, fmt, fIsLoading, mintSteps, currentStep,
                   hairBalance, maxBalance, fUserNFTs, stepActions, flow, chain, requested,
                   submitted, lastCheck>>

\* startMintProcess of the variant, up to the first await of the
\* checkBalances() that checkTokenBalancesForMinting calls.  The
\* hairBalance and maxBalance that checkTokenBalancesForMinting will test are
\* those of the render whose Start button was pressed.
hookStartMintProcess ==
    /\ page = "foom"
    /\ effectCheck # "idle"
    /\ ~hasStartedMinting
    /\ canStartMinting
    /\ flow.pc = "idle"
    /\ stepActions' = [hairHasAllowance |-> hairBalance.hasAllowance,
                        maxHasAllowance |-> maxBalance.hasAllowance,
                        bound |-> (hairContract /\ maxContract /\ foomContract)]
    /\ IF hairContract /\ maxContract /\ address # NULL /\ foomContract
       THEN /\ fIsLoading' = TRUE
            /\ mintSteps' = updateStepStatus([i \in Steps |-> "pending"], 1, "active")
            /\ flow' = [IdleFlow EXCEPT !.pc = "hook.hair", !.caller = "hookStart"]
       ELSE /\ mintSteps' = [i \in Steps |-> "pending"]
            /\ UNCHANGED <<fIsLoading, flow>>
    /\ UNCHANGED <<walletVars, page, wentgeVars, fmt, effectCheck, currentStep, hairBalance,
                   maxBalance, fUserNFTs, chain, requested, submitted, lastCheck>>

\* checkBalances called by checkTokenBalancesForMinting: the fees and the
\* HAIR balance and allowance are read; setHairBalance
hookCheckReadsHair ==
    /\ flow.pc = "hook.hair"
    /\ hairBalance' = tokenStatus(chain.hairBal, chain.hairAllow, HAIR_TKN_FEE)
    /\ flow' = [flow EXCEPT !.pc = "hook.max", !.hairFee = HAIR_TKN_FEE,
                            !.maxFee = MAX_TKN_FEE, !.hairBal = chain.hairBal,
                            !.hairAllow = chain.hairAllow]
    /\ UNCHANGED <<walletVars, page, wentgeVars, fmt, effectCheck, fIsLoading, mintSteps,
                   currentStep, maxBalance, fUserNFTs, stepActions, chain, requested,
                   submitted, lastCheck>>

\* What checkTokenBalancesForMinting does once checkBalances() has returned
\* (part_005 lines 141-156, then the finally): the tests are on the
\* hairBalance and maxBalance of its own render
hookDecision ==
    LET d == checkDecision(mintSteps, stepActions.hairHasAllowance,
                           stepActions.maxHasAllowance)
    IN /\ mintSteps' = d.steps
       /\ currentStep' = d.currentStep
       /\ fIsLoading' = FALSE

\* checkBalances: the MAX balance and allowance are read; setMaxBalance;
\* checkBalances returns and checkTokenBalancesForMinting goes on
hookCheckDone ==
    /\ flow.pc = "hook.max"
    /\ maxBalance' = tokenStatus(chain.maxBal, chain.maxAllow, MAX_TKN_FEE)
    /\ hookDecision
    /\ lastCheck' = [done |-> TRUE, caller |-> "hookStart",
                     hairFee |-> flow.hairFee, maxFee |-> flow.maxFee,
                     hairAllow |-> flow.hairAllow, maxAllow |-> chain.maxAllow]
    /\ flow' = [IdleFlow EXCEPT !.caller = "hookStart"]
    /\ UNCHANGED <<walletVars, page, wentgeVars, fmt, effectCheck, hairBalance, fUserNFTs,
                   stepActions, chain, requested, submitted>>

\* checkBalances: a read rejects; its catch logs the error, it returns
\* normally and checkTokenBalancesForMinting goes on
hookCheckFails ==
    /\ flow.pc \in {"hook.hair", "hook.max"}
    /\ hookDecision
    /\ flow' = [IdleFlow EXCEPT !.caller = "hookStart"]
    /\ UNCHANGED <<walletVars, page, wentgeVars, fmt, effectCheck, hairBalance, maxBalance,
                   fUserNFTs, stepActions, chain, requested, submitted, lastCheck>>

NextFoomHook ==
    \/ hookConnectEffect
    \/ hookEffectReadsHair
    \/ hookEffectReadsMax
    \/ hookEffectFails
    \/ hookStartMintProcess
    \/ hookCheckReadsHair
    \/ hookCheckDone
    \/ hookCheckFails

SpecFoomHook == InitFoom /\ [][NextFoomHook]_vars

(* ====================================================================== *)
(* WentgePage: the free mint, one token per wallet                         *)
(* ====================================================================== *)
wentgeContract == provider # NULL

\* WenTgeNft.balanceOf
balanceOf(a) == IF owned[a] THEN 1 ELSE 0

\* The Mint button is enabled (contractLoading is false once the page has
\* mounted)
mintButton == isConnected /\ ~wIsLoading /\ canMint

\* checkMintEligibility, called by the effect for account a: balanceOf resolves
checkMintEligibilityResolves(a) ==
    /\ wChecks[a] > 0
    /\ wChecks' = [wChecks EXCEPT ![a] = @ - 1]
    /\ canMint' = (balanceOf(a) = 0)
    /\ hasCheckedEligibility' = TRUE
    /\ wIsLoading' = FALSE
    /\ UNCHANGED <<walletVars, page, foomVars, wUserNFTs, wLoads, wMint, owned>>

\* checkMintEligibility, called by the effect: balanceOf rejects
checkMintEligibilityFails(a) ==
    /\ wChecks[a] > 0
    /\ wChecks' = [wChecks EXCEPT ![a] = @ - 1]
    /\ wIsLoading' = FALSE
    /\ UNCHANGED <<walletVars, page, foomVars, canMint, hasCheckedEligibility, wUserNFTs,
                   wLoads, wMint, owned>>

\* loadUserNFTs, called by the effect for account a: its reads resolve (they
\* are taken as one step) and the list is set
wentgeLoadUserNFTsResolves(a) ==
    /\ wLoads[a] > 0
    /\ wLoads' = [wLoads EXCEPT ![a] = @ - 1]
    /\ wUserNFTs' = balanceOf(a)
    /\ wIsLoading' = FALSE
    /\ UNCHANGED <<walletVars, page, foomVars, canMint, hasCheckedEligibility, wChecks,
                   wMint, owned>>

\* loadUserNFTs, called by the effect: a read rejects
wentgeLoadUserNFTsFails(a) ==
    /\ wLoads[a] > 0
    /\ wLoads' = [wLoads EXCEPT ![a] = @ - 1]
    /\ wIsLoading' = FALSE
    /\ UNCHANGED <<walletVars, page, foomVars, canMint, hasCheckedEligibility, wUserNFTs,
                   wChecks, wMint, owned>>

\* handleMint, the function, up to its first await (lines 850-886). One
\* call is followed at a time.
handleMintCall ==
    /\ page = "wentge"
    /\ wMint.pc = "idle"
    /\ IF ~wentgeContract \/ ~isConnected
       THEN /\ wMint' = [IdleMint EXCEPT !.outcome = "walletRequired"]
            /\ UNCHANGED wIsLoading
       ELSE IF chainId # HEMI_CHAIN_ID
       THEN /\ wMint' = [IdleMint EXCEPT !.outcome = "wrongNetwork"]
            /\ UNCHANGED wIsLoading
       ELSE IF ~canMint
       THEN /\ wMint' = [IdleMint EXCEPT !.outcome = "alreadyMinted"]
            /\ UNCHANGED wIsLoading
       ELSE /\ wMint' = [IdleMint EXCEPT !.pc = "mint", !.caller = address,
                                         !.outcome = "calling"]
            /\ wIsLoading' = TRUE
    /\ UNCHANGED <<walletVars, page, foomVars, canMint, hasCheckedEligibility, wUserNFTs,
                   wChecks, wLoads, owned>>

\* handleMint called by the Mint button
handleMint ==
    /\ mintButton
    /\ handleMintCall

\* wentgeContract.mint() resolves: the wallet's first account is the sender,
\* the contract's require passed for it and the transaction is sent
handleMintSent ==
    /\ wMint.pc = "mint"
    /\ Len(provAccounts) > 0
    /\ balanceOf(provAccounts[1]) = 0
    /\ wMint' = [wMint EXCEPT !.pc = "wait", !.sender = provAccounts[1]]
    /\ UNCHANGED <<walletVars, page, foomVars, wIsLoading, canMint, hasCheckedEligibility,
                   wUserNFTs, wChecks, wLoads, owned>>

\* Texts are sequences of words.  The text the catch looks for (line 915):
ONE_PER_ADDRESS == <<"Only", "one", "NFT", "per", "address">>

\* String.prototype.includes
includes(text, part) ==
    \E i \in 0..(Len(text) - Len(part)) : SubSeq(text, i + 1, i + Len(part)) = part

\* The errors mint() and tx.wait() reject with, as the code and the message
\* the catch reads (no message: << >>): the user refuses (code 4001), with
\* the wallet's text or with a text that quotes the contract's rule; the
\* contract's require fails; another failure with a message; one without
MintErrors ==
    {[code |-> USER_REJECTED, message |-> <<"User", "denied", "transaction", "signature">>],
     [code |-> USER_REJECTED, message |-> <<"rejected:">> \o ONE_PER_ADDRESS],
     [code |-> -32603, message |-> <<"execution", "reverted:">> \o ONE_PER_ADDRESS],
     [code |-> -32603, message |-> <<"insufficient", "funds">>],
     [code |-> -32603, message |-> << >>]}

\* The error is the contract's require failing
RequireFailed(error) == error.code # USER_REJECTED /\ includes(error.message, ONE_PER_ADDRESS)

\* A variant of the catch that looks at the message first
mintErrorOutcomeMessageFirst(error) ==
    IF includes(error.message, ONE_PER_ADDRESS) THEN "alreadyMintedByContract"
    ELSE IF error.code = USER_REJECTED THEN "cancelled"
    ELSE "failed"

\* handleMint's catch, lines 907-925: which of its three toasts is shown
mintErrorOutcome(error) ==
    IF error.code = USER_REJECTED THEN "cancelled"
    ELSE IF includes(error.message, ONE_PER_ADDRESS) THEN "alreadyMintedByContract"
    ELSE "failed"

\* the description of the toast shown
mintErrorShown(error) ==
    CASE mintErrorOutcome(error) = "cancelled" ->
           <<"You", "cancelled", "the", "transaction">>
      [] mintErrorOutcome(error) = "alreadyMintedByContract" ->
           <<"You", "can", "only", "mint", "one", "WENTGE", "NFT", "per", "wallet">>
      [] OTHER ->
           IF Len(error.message) > 0 THEN error.message
           ELSE <<"Failed", "to", "mint", "NFT">>

\* handleMint's catch and finally, for the error caught
handleMintCatch(error) ==
    /\ wMint' = [IdleMint EXCEPT !.outcome = mintErrorOutcome(error), !.error = error,
                                 !.shown = mintErrorShown(error)]
    /\ wIsLoading' = FALSE

\* wentgeContract.mint() rejects
handleMintRejected(error) ==
    /\ wMint.pc = "mint"
    /\ RequireFailed(error) => Len(provAccounts) > 0 /\ balanceOf(provAccounts[1]) # 0
    /\ handleMintCatch(error)
    /\ UNCHANGED <<walletVars, page, foomVars, canMint, hasCheckedEligibility, wUserNFTs,
                   wChecks, wLoads, owned>>

\* tx.wait() resolves: the sender owns a token; checkMintEligibility is called
handleMintConfirmed ==
    /\ wMint.pc = "wait"
    /\ owned' = [owned EXCEPT ![wMint.sender] = TRUE]
    /\ wMint' = [wMint EXCEPT !.pc = "refresh.check", !.outcome = "minted"]
    /\ wIsLoading' = TRUE
    /\ UNCHANGED <<walletVars, page, foomVars, canMint, hasCheckedEligibility, wUserNFTs,
                   wChecks, wLoads>>

\* tx.wait() rejects (the sender owned no token when the transaction was sent)
handleMintWaitFails(error) ==
    /\ wMint.pc = "wait"
    /\ ~RequireFailed(error)
    /\ handleMintCatch(error)
    /\ UNCHANGED <<walletVars, page, foomVars, canMint, hasCheckedEligibility, wUserNFTs,
                   wChecks, wLoads, owned>>

\* The refresh's checkMintEligibility ends (ok: its balanceOf resolved) and
\* loadUserNFTs is called; both are the closures of the render handleMint
\* was invoked in, so they read for the account it was invoked for
handleMintRefreshCheck(ok) ==
    /\ wMint.pc = "refresh.check"
    /\ IF ok
       THEN /\ canMint' = (balanceOf(wMint.caller) = 0)
            /\ hasCheckedEligibility' = TRUE
       ELSE UNCHANGED <<canMint, hasCheckedEligibility>>
    /\ wMint' = [wMint EXCEPT !.pc = "refresh.load"]
    /\ wIsLoading' = TRUE
    /\ UNCHANGED <<walletVars, page, foomVars, wUserNFTs, wChecks, wLoads, owned>>

\* The refresh's loadUserNFTs ends (ok: its reads resolved); handleMint returns
handleMintRefreshLoad(ok) ==
    /\ wMint.pc = "refresh.load"
    /\ wUserNFTs' = (IF ok THEN balanceOf(wMint.caller) ELSE wUserNFTs)
    /\ wMint' = [IdleMint EXCEPT !.outcome = "minted"]
    /\ wIsLoading' = FALSE
    /\ UNCHANGED <<walletVars, page, foomVars, canMint, hasCheckedEligibility, wChecks,
                   wLoads, owned>>

\* The page mounted with the Session connected as 0xA1, which owns no token
\* (0xB2 may own one): the effect has run once, with the first contract binding
InitWentge ==
    /\ WalletConnectedOnHemi
    /\ page = "wentge"
    /\ FoomIdle
    /\ wIsLoading = TRUE
    /\ canMint = FALSE
    /\ hasCheckedEligibility = FALSE
    /\ wUserNFTs = 0
    /\ wMint = IdleMint
    /\ wChecks = [a \in Accounts |-> IF a = "0xA1" THEN 1 ELSE 0]
    /\ wLoads = [a \in Accounts |-> IF a = "0xA1" THEN 1 ELSE 0]
    /\ owned \in {[a \in Accounts |-> FALSE], [a \in Accounts |-> a = "0xB2"]}

NextWentge ==
    \/ \E accounts \in AccountLists : handleAccountsChanged(accounts)
    \/ \E c \in HandlerCallers : initializeWalletListAccounts(c)
    \/ \E c \in HandlerCallers : initializeWalletListAccountsFails(c)
    \/ \E c \in HandlerCallers : initializeWalletGetNetwork(c)
    \/ \E c \in HandlerCallers : initializeWalletGetNetworkFails(c)
    \/ \E a \in Accounts : checkMintEligibilityResolves(a)
    \/ \E a \in Accounts : checkMintEligibilityFails(a)
    \/ \E a \in Accounts : wentgeLoadUserNFTsResolves(a)
    \/ \E a \in Accounts : wentgeLoadUserNFTsFails(a)
    \/ handleMint
    \/ handleMintSent
    \/ \E error \in MintErrors : handleMintRejected(error)
    \/ handleMintConfirmed
    \/ \E error \in MintErrors : handleMintWaitFails(error)
    \/ \E ok \in BOOLEAN : handleMintRefreshCheck(ok)
    \/ \E ok \in BOOLEAN : handleMintRefreshLoad(ok)

SpecWentge == InitWentge /\ [][NextWentge]_vars

(* ====================================================================== *)
(* The two mint handlers called in any Session the pages can be mounted   *)
(* with                                                                    *)
(* ====================================================================== *)
\* Sessions: unconnected, connected on Hemi, connected on another chain
GuardSessions ==
    {resetWalletState,
     setWalletState(<<"0xA1">>, HEMI_CHAIN_ID),
     setWalletState(<<"0xA1">>, parseInt16(OtherHex))}

InitGuards ==
    /\ \E r \in GuardSessions :
          /\ isConnected = r.isConnected
          /\ address = r.address
          /\ chainId = r.chainId
          /\ provider = r.provider
          /\ signer = r.signer
    /\ hasEthereum = TRUE
    /\ provAccounts = <<"0xA1">>
    /\ provChain = (IF chainId = HEMI_CHAIN_ID THEN HemiHex ELSE OtherHex)
    /\ provKnowsHemi = TRUE
    /\ probe = "done"
    /\ conn = IdleConn
    /\ sw = [c \in SwCallers |-> IdleSw]
    /\ init = [c \in {ProbeCaller, ConnectCaller} |-> IdleInit]
    /\ runs = [a \in AccountLists |-> 0]
    /\ notified = "other"
    /\ page \in {"foom", "wentge"}
    /\ FoomMounted
    /\ chain \in [hairBal : {HAIR_TKN_FEE}, hairAllow : Amounts(HAIR_TKN_FEE),
                  maxBal : {MAX_TKN_FEE}, maxAllow : Amounts(MAX_TKN_FEE),
                  nfts : {0}]
    \* WentgePage after its effect's reads, or before them
    /\ wIsLoading = FALSE
    /\ canMint \in BOOLEAN
    /\ hasCheckedEligibility = canMint
    /\ wUserNFTs = 0
    /\ wMint = IdleMint
    /\ wChecks = [a \in Accounts |-> 0]
    /\ wLoads = [a \in Accounts |-> 0]
    /\ owned \in {[a \in Accounts |-> FALSE], [a \in Accounts |-> a = "0xA1"]}

NextGuards ==
    \/ startMintProcessCall
    \/ checkTokenBalancesReads
    \/ checkTokenBalancesDone
    \/ checkTokenBalancesFails
    \/ handleMintCall
    \/ handleMintSent
    \/ \E error \in MintErrors : handleMintRejected(error)
    \/ handleMintConfirmed
    \/ \E error \in MintErrors : handleMintWaitFails(error)
    \/ \E ok \in BOOLEAN : handleMintRefreshCheck(ok)
    \/ \E ok \in BOOLEAN : handleMintRefreshLoad(ok)

SpecGuards == InitGuards /\ [][NextGuards]_vars

(* ---------------------------------------------------------------------- *)
(* The session manager                                                     *)
(* ---------------------------------------------------------------------- *)
InitWallet == WalletInit /\ page = "home" /\ FoomIdle /\ WentgeIdle

NextWallet ==
    \/ checkExistingConnection
    \/ checkExistingConnectionFails
    \/ \E a \in AccountLists : handleAccountsChanged(a)
    \/ \E h \in ChainHexes : handleChainChanged(h)
    \/ handleDisconnect
    \/ disconnect
    \/ \E w \in WalletTypes : connect(w)
    \/ \E a \in AccountLists : connectRequestAccounts(a)
    \/ connectRequestAccountsFails
    \/ \E c \in InitCallers : initializeWalletListAccounts(c)
    \/ \E c \in InitCallers : initializeWalletListAccountsFails(c)
    \/ \E c \in InitCallers : initializeWalletGetNetwork(c)
    \/ \E c \in InitCallers : initializeWalletGetNetworkFails(c)
    \/ switchToHemi
    \/ \E s \in SwCallers : switchToHemiSwitched(s)
    \/ \E s \in SwCallers : switchToHemiUnrecognized(s)
    \/ \E s \in SwCallers : switchToHemiSwitchFails(s)
    \/ \E s \in SwCallers, b \in BOOLEAN : switchToHemiAdded(s, b)
    \/ \E s \in SwCallers : switchToHemiAddFails(s)

SpecWallet == InitWallet /\ [][NextWallet]_vars

\* Passive account sync alone: the page-load probe, accountsChanged
\* notifications that carry accounts, and the provider answering every read
\* of the initializeWallet runs they start, in any order
NextAccountSync ==
    \/ checkExistingConnection
    \/ \E a \in AccountLists \ {<< >>} : handleAccountsChanged(a)
    \/ \E c \in InitCallers \ {ConnectCaller} : initializeWalletListAccounts(c)
    \/ \E c \in InitCallers \ {ConnectCaller} : initializeWalletGetNetwork(c)

SpecAccountSync == InitWallet /\ [][NextAccountSync]_vars

(* ====================================================================== *)
(* lib/web3.ts: formatTokenAmountWithCommas                                *)
(* ====================================================================== *)
\* A natural number too long for a machine integer is the sequence of its
\* decimal digits, most significant first; << >> is zero.
Zeros(k) == [i \in 1..k |-> 0]

RECURSIVE Trim(_)
Trim(n) == IF Len(n) > 0 /\ Head(n) = 0 THEN Trim(Tail(n)) ELSE n

RECURSIVE LexLess(_, _)
LexLess(a, b) ==
    IF Len(a) = 0 THEN FALSE
    ELSE IF Head(a) # Head(b) THEN Head(a) < Head(b)
    ELSE LexLess(Tail(a), Tail(b))

\* a < b
Less(a, b) ==
    LET x == Trim(a)
        y == Trim(b)
    IN  IF Len(x) # Len(y) THEN Len(x) < Len(y) ELSE LexLess(x, y)

\* 2 * n: a digit doubles and takes a carry of 1 when the digit to its right
\* is 5 or more
Dbl(n) ==
    LET L == Len(n)
        body == [i \in 1..L |-> (2 * n[i] + (IF i < L /\ n[i + 1] >= 5 THEN 1 ELSE 0)) % 10]
    IN  IF L > 0 /\ n[1] >= 5 THEN <<1>> \o body ELSE body

\* n \div 2: a digit is halved after taking 10 when the digit to its left is odd
Hlf(n) ==
    Trim([i \in 1..Len(n) |-> ((IF i > 1 /\ n[i - 1] % 2 = 1 THEN 10 ELSE 0) + n[i]) \div 2])

Odd(n) == Len(n) > 0 /\ n[Len(n)] % 2 = 1

\* n + 1
RECURSIVE Inc(_)
Inc(n) ==
    IF Len(n) = 0 THEN <<1>>
    ELSE IF n[Len(n)] < 9 THEN [n EXCEPT ![Len(n)] = @ + 1]
    ELSE Inc(SubSeq(n, 1, Len(n) - 1)) \o <<0>>

\* n * 2^e
RECURSIVE DblN(_, _)
DblN(n, e) == IF e = 0 \/ Len(n) = 0 THEN n ELSE DblN(Dbl(n), e - 1)

\* n \div 2^e, with the first bit dropped (round) and whether any later bit
\* dropped was set (sticky)
RECURSIVE HlfN(_, _, _, _)
HlfN(n, e, round, sticky) ==
    IF e = 0 THEN [q |-> n, round |-> round, sticky |-> sticky]
    ELSE IF Len(n) = 0 THEN [q |-> n, round |-> FALSE, sticky |-> sticky \/ round]
    ELSE HlfN(Hlf(n), e - 1, Odd(n), sticky \/ round)

\* An IEEE 754 double (a JavaScript number) that is not negative: NaN, or
\* m / 2^s with m < 2^53 (and m >= 2^52 whenever s > 0)
TwoTo52 == <<4, 5, 0, 3, 5, 9, 9, 6, 2, 7, 3, 7, 0, 4, 9, 6>>
TwoTo53 == <<9, 0, 0, 7, 1, 9, 9, 2, 5, 4, 7, 4, 0, 9, 9, 2>>
NaN == [nan |-> TRUE, m |-> << >>, s |-> 0]

RECURSIVE ScaleUp(_, _, _)
ScaleUp(A, k, s) ==
    IF Less(A, TwoTo52 \o Zeros(k)) THEN ScaleUp(Dbl(A), k, s + 1) ELSE [A |-> A, s |-> s]

\* The double nearest to N / 10^k (ties to even), for N / 10^k < 2^53: what
\* a correctly rounded decimal-to-binary conversion or division returns
nearestDouble(N, k) ==
    IF Trim(N) = << >> THEN [nan |-> FALSE, m |-> << >>, s |-> 0]
    ELSE LET sc == ScaleUp(Trim(N), k, 0)
             L == Len(sc.A)
             m0 == SubSeq(sc.A, 1, L - k)
             f == SubSeq(sc.A, L - k + 1, L)
             half == IF k = 0 THEN << >> ELSE <<5>> \o Zeros(k - 1)
             up == k > 0 /\ (Less(half, f) \/ (f = half /\ Odd(m0)))
         IN  [nan |-> FALSE, m |-> IF up THEN Inc(m0) ELSE m0, s |-> sc.s]

\* parseFloat(amount): a text that is not a number gives NaN, digits with an
\* optional fraction give the nearest double
parseFloat(amount) ==
    IF amount.kind # "decimal" THEN NaN
    ELSE nearestDouble(amount.int \o amount.frac, Len(amount.frac))

isNaN(number) == number.nan

\* Math.pow(10, displayDecimals) is exact; number * multiplier is the exact
\* product rounded to 53 bits, ties to even
RECURSIVE RoundTo53(_, _, _, _)
RoundTo53(q, t, round, sticky) ==
    IF Less(q, TwoTo53)
    THEN [q |-> IF round /\ (sticky \/ Odd(q)) THEN Inc(q) ELSE q, t |-> t]
    ELSE RoundTo53(Hlf(q), t + 1, Odd(q), sticky \/ round)

times(number, displayDecimals) ==
    LET r == RoundTo53(number.m \o Zeros(displayDecimals), 0, FALSE, FALSE)
    IN  [nan |-> FALSE, m |-> r.q, s |-> number.s - r.t]

\* Math.floor of a double, as an integer
floor(x) == IF x.s <= 0 THEN DblN(x.m, 0 - x.s) ELSE HlfN(x.m, x.s, FALSE, FALSE).q

\* Math.floor(number * multiplier) / multiplier
truncated(number, displayDecimals) ==
    nearestDouble(floor(times(number, displayDecimals)), displayDecimals)

Chr(digit) == <<"0", "1", "2", "3", "4", "5", "6", "7", "8", "9">>[digit + 1]
Chars(n) == [i \in 1..Len(n) |-> Chr(n[i])]

\* The digits of an integer in groups of three
RECURSIVE Group(_)
Group(n) ==
    IF Len(n) <= 3 THEN Chars(n)
    ELSE Group(SubSeq(n, 1, Len(n) - 3)) \o <<",">> \o Chars(SubSeq(n, Len(n) - 2, Len(n)))

\* x.toLocaleString('en-US', {minimumFractionDigits: d, maximumFractionDigits: d})
\* for x < 2^53: x is rounded to d fraction digits (half away from zero)
toLocaleString(x, d) ==
    LET h == HlfN(x.m \o Zeros(d), IF x.s > 0 THEN x.s ELSE 0, FALSE, FALSE)
        up == DblN(h.q, IF x.s < 0 THEN 0 - x.s ELSE 0)
        T == IF h.round THEN Inc(up) ELSE up
        P == IF Len(T) < d + 1 THEN Zeros(d + 1 - Len(T)) \o T ELSE T
        int == SubSeq(P, 1, Len(P) - d)
        frac == SubSeq(P, Len(P) - d + 1, Len(P))
    IN  Group(int) \o (IF d > 0 THEN <<".">> \o Chars(frac) ELSE << >>)

\* formatTokenAmountWithCommas(amount, displayDecimals), lines 40-64
formatted(amount, displayDecimals) ==
    LET number == parseFloat(amount) IN
    IF isNaN(number) THEN <<"0", ".", "0", "0">>
    ELSE toLocaleString(truncated(number, displayDecimals), displayDecimals)

Nines(k) == [i \in 1..k |-> 9]

\* The amounts formatted: texts that are no number, and decimal texts of up
\* to 18 fraction digits (what ethers.utils.formatEther produces)
IntParts ==
    {<<0>>, <<9, 9>>, <<1, 0, 0, 0>>, <<2, 9, 9, 9>>, <<2, 7, 4, 9, 5, 3>>,
     <<9, 9, 1, 2, 4, 8, 8, 5, 7>>}
FracParts ==
    {<< >>, <<5>>, <<2, 9>>, <<7, 9>>, <<9, 9>>, <<9, 9, 9>>,
     <<1, 2, 3, 4, 5, 6, 7, 8, 9>>, Nines(13), Nines(18)}
FormatAmounts ==
    {[kind |-> "text", text |-> t] : t \in {"", "invalid", "NaN"}}
        \cup {[kind |-> "decimal", int |-> i, frac |-> f] : i \in IntParts, f \in FracParts}
DisplayDecimals == {0, 2, 3}

formatTokenAmountWithCommas ==
    /\ ~fmt.done
    /\ fmt.amount.kind # "none"
    /\ fmt' = [fmt EXCEPT !.out = formatted(fmt.amount, fmt.displayDecimals), !.done = TRUE]
    /\ UNCHANGED <<walletVars, page, wentgeVars, fIsLoading, mintSteps, currentStep,
                   hairBalance, maxBalance, fUserNFTs, stepActions, flow, chain, requested,
                   submitted, lastCheck, effectCheck>>

InitFormat ==
    /\ WalletInit /\ page = "home" /\ WentgeIdle
    /\ fIsLoading = FALSE
    /\ mintSteps = [i \in Steps |-> "pending"]
    /\ currentStep = 0
    /\ hairBalance = [hasBalance |-> FALSE, hasAllowance |-> FALSE]
    /\ maxBalance = [hasBalance |-> FALSE, hasAllowance |-> FALSE]
    /\ fUserNFTs = 0
    /\ stepActions = [maxHasAllowance |-> FALSE, bound |-> FALSE]
    /\ flow = IdleFlow
    /\ requested = {}
    /\ submitted = {}
    /\ lastCheck = NoCheck
    /\ effectCheck = "idle"
    /\ chain = [hairBal |-> 0, hairAllow |-> 0, maxBal |-> 0, maxAllow |-> 0, nfts |-> 0]
    /\ fmt \in [amount : FormatAmounts, displayDecimals : DisplayDecimals,
                out : {<< >>}, done : {FALSE}]

NextFormat == formatTokenAmountWithCommas

SpecFormat == InitFormat /\ [][NextFormat]_vars

(* ---------------------------------------------------------------------- *)
(* Properties of the session manager                                       *)
(* ---------------------------------------------------------------------- *)
Unconnected == ~isConnected /\ address = NULL /\ chainId = NullChain
FullyUnconnected == Unconnected /\ provider = NULL /\ signer = NULL

\* C1: Session.address and Session.chainId are either both set or both
\* unset, whatever calls and notifications have been handled.
C1_AddressAndChainBothOrNeither == (address = NULL) <=> (chainId = NullChain)

\* C2: when only accountsChanged notifications have been handled, the last
\* of them carried an empty list and every initializeWallet run they started
\* is over, the Session is unconnected.
C2_EmptyAccountsEndUnconnected ==
    (notified = "empty" /\ RunsInFlight = 0) => Unconnected

CountMethod(reqs, m) == Cardinality({i \in 1..Len(reqs) : reqs[i].method = m})

\* C9: a switchToHemi call whose wallet_switchEthereumChain was rejected
\* with 4902 has sent exactly one wallet_addEthereumChain, with
\* HEMI_CHAIN_CONFIG as its parameter, and only the one
\* wallet_switchEthereumChain, while the add is pending and once the call is
\* over, however the add ended.
C9_UnrecognizedChainAddsOnce ==
    \A s \in SwCallers :
        sw[s].err = UNRECOGNIZED_CHAIN =>
            /\ CountMethod(sw[s].reqs, "wallet_addEthereumChain") = 1
            /\ CountMethod(sw[s].reqs, "wallet_switchEthereumChain") = 1
            /\ \A i \in 1..Len(sw[s].reqs) :
                  sw[s].reqs[i].method = "wallet_addEthereumChain" =>
                      sw[s].reqs[i].params = HEMI_CHAIN_CONFIG

\* a switchToHemi call that met 4902 is over, its add request having failed
C9_Witness ==
    \E s \in SwCallers :
        sw[s].err = UNRECOGNIZED_CHAIN /\ sw[s].pc = "idle" /\ sw[s].result = "threw"

ConnectFailures == {"no_provider", "rejected", "no_accounts", "read_failed", "not_implemented"}

\* C10: a connect call that ends before it reaches the best-effort network
\* switch (no provider, request refused, no accounts, a read failed, or
\* walletconnect) has thrown to its caller and leaves the Session fully
\* unconnected.
C10_ConnectFailureResets ==
    [][(conn' # conn /\ conn'.pc = "idle" /\ conn.pc # "switchToHemi")
         => /\ conn'.result = "threw"
            /\ conn'.error \in ConnectFailures
            /\ FullyUnconnected']_vars

\* connect has thrown because eth_requestAccounts was refused
C10_Witness == conn.result = "threw" /\ conn.error = "rejected" /\ FullyUnconnected

\* The step in which the switchToHemi call of caller s throws
SwitchThrows(s) ==
    /\ sw[s].pc \in {"switch", "add"}
    /\ sw'[s].pc = "idle"
    /\ sw'[s].result = "threw"

\* C11: connect('metamask') whose initializeWallet succeeded has set the
\* Session connected, with the first account listAccounts reported and the
\* chain getNetwork reported; and when the switchToHemi it then awaits
\* throws, connect returns normally and that step leaves the Session as it
\* was.
C11_SwitchFailureKeepsConnect ==
    [][/\ (conn.pc = "initializeWallet" /\ conn'.pc = "switchToHemi") =>
             /\ isConnected'
             /\ address' = init[ConnectCaller].accounts[1]
             /\ chainId' = parseInt16(provChain)
             /\ provider' # NULL /\ signer' # NULL
       /\ (conn.pc = "switchToHemi" /\ SwitchThrows("connect")) =>
             /\ conn'.pc = "idle"
             /\ conn'.result = "returned"
             /\ UNCHANGED sessionVars]_vars

\* connect has returned although its switchToHemi threw, and the Session is
\* connected as the provider's first account on the provider's chain
C11_Witness ==
    /\ conn.pc = "idle" /\ conn.walletType = "metamask" /\ conn.result = "returned"
    /\ sw["connect"].result = "threw"
    /\ isConnected
    /\ Len(provAccounts) > 0 /\ address = provAccounts[1]
    /\ chainId = parseInt16(provChain) /\ chainId # HEMI_CHAIN_ID

C13_DisconnectResets ==
    [][(disconnect \/ handleDisconnect) => FullyUnconnected']_vars

\* disconnect was the last call, after a connect that had returned, and the
\* Session is fully unconnected
C13_Witness ==
    notified = "disconnect" /\ conn.result = "returned" /\ FullyUnconnected

\* C23: in every state (each is one left by a whole synchronous block of an
\* operation or a handler), isConnected holds exactly when address is set,
\* and exactly when both the provider and the signer handle are set.
C23_ConnectedIffAddressIffHandles ==
    /\ isConnected <=> address # NULL
    /\ isConnected <=> (provider # NULL /\ signer # NULL)
    /\ provider # NULL <=> signer # NULL

\* connect has returned, a chainChanged has since been handled on the
\* connected Session (its chain id is no longer the one read at
\* initialization) and address and both handles are set
C23_Witness ==
    /\ conn.result = "returned" /\ sw["connect"].result = "threw"
    /\ isConnected /\ address # NULL /\ provider # NULL /\ signer # NULL
    /\ chainId = HEMI_CHAIN_ID

\* C14: a chainChanged notification stores the new chain; when the Session
\* is connected the handler also starts a re-derivation (initializeWallet),
\* and when it is unconnected it starts none.
C14_ChainChangedRederives ==
    [][(provChain' # provChain) =>
          /\ chainId' = parseInt16(provChain')
          /\ (isConnected => RunsInFlight' = RunsInFlight + 1)
          /\ (~isConnected => runs' = runs)]_vars

\* C15: when the switchToHemi called by the Switch Network button (offered
\* on a connected Session) throws, the Session is reset to unconnected.
C15_SwitchFailureResets ==
    [][SwitchThrows("ui") => FullyUnconnected']_vars

\* C16: when listAccounts or getNetwork rejects inside an initializeWallet
\* run started by a notification handler, the Session keeps the values it
\* had.
C16_PassiveReadFailureKeepsSession ==
    [][(\E c \in HandlerCallers :
           initializeWalletListAccountsFails(c) \/ initializeWalletGetNetworkFails(c))
          => UNCHANGED sessionVars]_vars

(* ---------------------------------------------------------------------- *)
(* The Foom mint workflow                                                 *)
(* ---------------------------------------------------------------------- *)
StatusList == <<mintSteps[1], mintSteps[2], mintSteps[3], mintSteps[4]>>
ApproveTxs == {"approveHair", "approveMax"}

\* The step in which checkTokenBalances returns normally, having read the
\* HAIR allowance flow.hairAllow and the MAX allowance chain.maxAllow
CheckCompletes == flow.pc = "max.allowance" /\ mintSteps'[1] = "complete"
CheckFindsHair == flow.hairAllow >= flow.hairFee
CheckFindsMax == chain.maxAllow >= flow.maxFee

\* C3 (as amended): when the balance check reads allowances for HAIR and MAX
\* that both cover the fees, then on its completion both approval steps are
\* complete, no approve transaction has been submitted, and the mint step is
\* pending and is the current actionable step (its button is offered); the
\* mint step becomes active only when the user presses that button.
C3_SufficientAllowancesOfferMint ==
    [][(CheckCompletes /\ CheckFindsHair /\ CheckFindsMax) =>
          /\ mintSteps'[2] = "complete"
          /\ mintSteps'[3] = "complete"
          /\ mintSteps'[4] = "pending"
          /\ currentStep' = 3
          /\ stepButton(4)'
          /\ submitted' \cap ApproveTxs = {}]_vars

C3_Witness ==
    /\ lastCheck.done /\ lastCheck.caller = "start"
    /\ lastCheck.hairAllow >= lastCheck.hairFee
    /\ lastCheck.maxAllow >= lastCheck.maxFee
    /\ flow.pc = "idle" /\ flow.caller = "start"
    /\ StatusList = <<"complete", "complete", "complete", "pending">>
    /\ currentStep = 3
    /\ submitted = {}

\* C3 (as stated): when the balance check reads allowances for HAIR and MAX
\* that both cover the fees, then on its completion both approval steps are
\* complete, no approve transaction has been submitted, and the mint step
\* has status active.
C3_SufficientAllowancesActivateMint ==
    [][(CheckCompletes /\ CheckFindsHair /\ CheckFindsMax) =>
          /\ mintSteps'[2] = "complete"
          /\ mintSteps'[3] = "complete"
          /\ mintSteps'[4] = "active"
          /\ submitted' \cap ApproveTxs = {}]_vars

\* The step in which an approval action's catch block runs
ApprovalThrows(stepId) ==
    /\ flow.pc \in (IF stepId = 2
                    THEN {"approveHair.fee", "approveHair.approve", "approveHair.wait"}
                    ELSE {"approveMax.fee", "approveMax.approve", "approveMax.wait"})
    /\ mintSteps'[stepId] = "error"

\* C4: when an approval step's action throws at the fee read, at the
\* submission or at the confirmation, that step ends with status error,
\* every later step keeps status pending, and that action submits no
\* further transaction (none is in flight and no step is active afterwards).
C4_ApprovalErrorHalts ==
    [][\A stepId \in {2, 3} :
          ApprovalThrows(stepId) =>
             /\ mintSteps'[stepId] = "error"
             /\ \A later \in Steps : later > stepId => mintSteps'[later] = "pending"
             /\ flow'.pc = "idle"
             /\ \A i \in Steps : mintSteps'[i] # "active"]_vars

\* The step in which approveHair finds its approval confirmed, in a workflow
\* whose balance check read a HAIR allowance of 0 and a sufficient MAX
\* allowance
HairConfirmsWithMaxSufficient ==
    /\ flow.pc = "approveHair.wait"
    /\ mintSteps'[2] = "complete"
    /\ lastCheck.hairAllow = 0
    /\ lastCheck.maxAllow >= lastCheck.maxFee
    /\ chain.maxAllow >= MAX_TKN_FEE

\* C5: in a workflow started with HAIR allowance 0 and a sufficient MAX
\* allowance, after the HAIR approval confirms the statuses are [complete,
\* complete, complete, pending] with the mint step the current actionable
\* step, and no MAX approve transaction has been requested or submitted.
C5_HairApprovalSkipsMax ==
    [][HairConfirmsWithMaxSufficient =>
          /\ StatusList' = <<"complete", "complete", "complete", "pending">>
          /\ currentStep' = 3
          /\ "approveMax" \notin requested'
          /\ "approveMax" \notin submitted']_vars

\* C6 (as amended): when the balance check finds the HAIR allowance below
\* the HAIR fee and the MAX allowance at or above the MAX fee, then after the
\* check step 1 is complete, step 2 is pending and approve-HAIR is the
\* current actionable step; the check leaves steps 3 and 4 as they were, so
\* after the check run by Start the statuses are [complete, pending,
\* pending, pending]: approve-MAX is not marked complete by the check.
C6_HairShortLeavesMaxUndecided ==
    [][(CheckCompletes /\ ~CheckFindsHair /\ CheckFindsMax) =>
          /\ mintSteps'[1] = "complete"
          /\ mintSteps'[2] = "pending"
          /\ currentStep' = 1
          /\ stepButton(2)'
          /\ mintSteps'[3] = mintSteps[3]
          /\ mintSteps'[4] = mintSteps[4]
          /\ (flow.caller = "start" =>
                StatusList' = <<"complete", "pending", "pending", "pending">>)]_vars

C6_Witness ==
    /\ lastCheck.done /\ lastCheck.caller = "start"
    /\ lastCheck.hairAllow < lastCheck.hairFee
    /\ lastCheck.maxAllow >= lastCheck.maxFee
    /\ flow.pc = "idle" /\ flow.caller = "start"
    /\ StatusList = <<"complete", "pending", "pending", "pending">>
    /\ currentStep = 1

\* C6 (as stated): when the balance check finds the HAIR allowance below the
\* HAIR fee and the MAX allowance at or above the MAX fee, the statuses after
\* the check are [complete, pending, complete, pending] with approve-HAIR
\* the current actionable step.
C6_HairShortMarksMaxComplete ==
    [][(CheckCompletes /\ ~CheckFindsHair /\ CheckFindsMax) =>
          /\ StatusList' = <<"complete", "pending", "complete", "pending">>
          /\ currentStep' = 1]_vars

\* The step in which executeMinnt returns after a confirmed mint: its
\* refresh (loadUserNFTs, then checkTokenBalances) has finished
MintRefreshFinishes ==
    /\ flow.caller = "mint"
    /\ flow.pc \in CheckPcs
    /\ flow'.pc = "idle"
    /\ mintSteps'[1] # "error"

\* C7: after the mint confirms and the post-mint refresh has finished, the
\* statuses are [complete, complete, complete, complete]; and the completed
\* mint step is terminal: once it is complete no step status changes.
C7_MintCompleteIsTerminal ==
    [][/\ MintRefreshFinishes =>
            StatusList' = <<"complete", "complete", "complete", "complete">>
       /\ (flow.pc = "idle" /\ flow.caller = "mint" /\ mintSteps[4] = "complete") =>
            mintSteps' = mintSteps]_vars

(* ---------------------------------------------------------------------- *)
(* The free mint                                                          *)
(* ---------------------------------------------------------------------- *)
\* The step in which handleMint is invoked: it returns at once with a local
\* outcome, or calls mint()
MintInvoked ==
    /\ wMint.pc = "idle"
    /\ wMint'.outcome \in {"walletRequired", "wrongNetwork", "alreadyMinted", "calling"}
    /\ wMint' # wMint \/ wIsLoading' # wIsLoading

\* C8: whenever handleMint is invoked while balanceOf(caller) is non-zero,
\* the call is rejected locally with the already-minted outcome: handleMint
\* returns without calling mint(), so no mint transaction is submitted,
\* whatever account changes, eligibility checks and loads came before.
C8_OwnerRejectedLocally ==
    [][(MintInvoked /\ balanceOf(address) # 0) =>
          /\ wMint'.pc = "idle"
          /\ wMint'.outcome = "alreadyMinted"]_vars


\* The control that invokes the user action of a step is rendered and
\* enabled: the Start button for the balance check, the step's own button
\* for the others
ActionOffered(stepId) ==
    IF stepId = 1 THEN ~hasStartedMinting /\ canStartMinting ELSE stepButton(stepId)

\* C17: whenever a step has status error and no action is running, the
\* control that invokes that step's action is still offered, so the step can
\* be tried again without reloading the page.
C17_ErrorStepCanBeRetried ==
    \A i \in Steps : (mintSteps[i] = "error" /\ flow.pc = "idle") => ActionOffered(i)

\* C18: when an approval is confirmed, the stored TokenStatus of its token
\* has hasAllowance computed from the allowance the chain holds after the
\* approval.
C18_ApprovalRereadsAllowance ==
    [][/\ (flow.pc = "approveHair.wait" /\ mintSteps'[2] = "complete") =>
             hairBalance'.hasAllowance = (chain'.hairAllow >= HAIR_TKN_FEE)
       /\ (flow.pc = "approveMax.wait" /\ mintSteps'[3] = "complete") =>
             maxBalance'.hasAllowance = (chain'.maxAllow >= MAX_TKN_FEE)]_vars


\* A step in which the page calls a contract: a read (of a fee, a balance,
\* an allowance, the owned tokens) or an approve or mint transaction
ReadPcs == CheckPcs \cup {"approveHair.fee", "approveMax.fee", "nfts.balanceOf", "nfts.tokens"}
ContractCallIssued ==
    \/ flow' # flow /\ flow'.pc \in ReadPcs
    \/ requested' # requested

\* C19: while the Session holds no provider (it was reset, and the handles
\* it held were discarded), the page issues no contract read and no approve
\* or mint transaction: any it issued would go through a handle obtained
\* before the reset.
C19_DiscardedHandlesUnused ==
    [][provider = NULL => ~ContractCallIssued]_vars


\* C20: when the balance check of the page built on useTokenBalances has
\* made its chain reads, the steps and the current step it leaves are those
\* decided from the two allowances those reads returned.
C20_DecisionFromCheckReads ==
    [][(flow.pc = "hook.max" /\ lastCheck'.done) =>
          LET d == checkDecision(mintSteps, lastCheck'.hairAllow >= lastCheck'.hairFee,
                                 lastCheck'.maxAllow >= lastCheck'.maxFee)
          IN  mintSteps' = d.steps /\ currentStep' = d.currentStep]_vars


ApproveHairPcs == {"approveHair.fee", "approveHair.approve", "approveHair.wait"}
ApproveMaxPcs == {"approveMax.fee", "approveMax.approve", "approveMax.wait"}

\* C21: an approval action marks its step complete only in the step in
\* which the awaited confirmation of its approve transaction arrives, and
\* the allowance that transaction leaves the Foom contract is exactly the
\* fee of that token as the Foom contract reports it; the other token's
\* allowance is untouched.  (chain.hairAllow and chain.maxAllow are the
\* allowances granted to the Foom contract's address.)
C21_ApprovalIsExactFee ==
    [][/\ (flow.pc \in ApproveHairPcs /\ (mintSteps'[2] = "complete" \/ chain' # chain)) =>
             /\ flow.pc = "approveHair.wait"
             /\ "approveHair" \in submitted
             /\ mintSteps'[2] = "complete"
             /\ chain' = [chain EXCEPT !.hairAllow = HAIR_TKN_FEE]
       /\ (flow.pc \in ApproveMaxPcs /\ (mintSteps'[3] = "complete" \/ chain' # chain)) =>
             /\ flow.pc = "approveMax.wait"
             /\ "approveMax" \in submitted
             /\ mintSteps'[3] = "complete"
             /\ chain' = [chain EXCEPT !.maxAllow = MAX_TKN_FEE]]_vars

\* both approvals were confirmed in this run, each for its fee
C21_Witness ==
    /\ flow.pc = "idle" /\ flow.caller = "approveMax"
    /\ {"approveHair", "approveMax"} \subseteq submitted
    /\ mintSteps[2] = "complete" /\ mintSteps[3] = "complete"
    /\ chain.hairAllow = HAIR_TKN_FEE /\ chain.maxAllow = MAX_TKN_FEE


\* C22: when the balance check started by Start has finished and found the
\* HAIR or the MAX balance below its fee, step 1 is not complete and no
\* approval or mint button is offered.
C22_ShortBalanceFailsCheck ==
    (/\ flow.pc = "idle" /\ flow.caller = "start" /\ lastCheck.done
     /\ (~hairBalance.hasBalance \/ ~maxBalance.hasBalance))
        => /\ mintSteps[1] # "complete"
           /\ \A i \in 2..4 : ~stepButton(i)


\* What a formatted amount reads as
IsDigitChar(c) == c # "," /\ c # "."
DigitOf(c) == CHOOSE i \in 0..9 : Chr(i) = c
PointAt(out) ==
    IF \E i \in 1..Len(out) : out[i] = "." THEN CHOOSE i \in 1..Len(out) : out[i] = "."
    ELSE Len(out) + 1
IntChars(out) == SubSeq(out, 1, PointAt(out) - 1)
FracChars(out) == SubSeq(out, PointAt(out) + 1, Len(out))
OutDigits(out) ==
    LET cs == SelectSeq(out, IsDigitChar) IN [i \in 1..Len(cs) |-> DigitOf(cs[i])]

\* exactly d fraction digits, and an integer part in groups of three
ExactFractionAndSeparators(out, d) ==
    /\ Len(FracChars(out)) = d
    /\ (PointAt(out) <= Len(out)) <=> (d > 0)
    /\ \A i \in 1..Len(FracChars(out)) : IsDigitChar(FracChars(out)[i])
    /\ LET I == IntChars(out) IN
         /\ Len(I) > 0
         /\ \A i \in 1..Len(I) : (I[i] = ",") <=> ((Len(I) - i + 1) % 4 = 0)

\* the number shown is not greater than the amount
NotAboveAmount(out, amount, d) ==
    ~Less(amount.int \o amount.frac \o Zeros(d), OutDigits(out) \o Zeros(Len(amount.frac)))

\* C24: formatTokenAmountWithCommas(amount, d) gives '0.00' for a text that
\* is no number; for a decimal amount it gives exactly d fraction digits with
\* thousands separators, and the number shown is never greater than the
\* amount (nothing is rounded up).
C24_FormatNeverRoundsUp ==
    fmt.done =>
        IF fmt.amount.kind = "text" THEN fmt.out = <<"0", ".", "0", "0">>
        ELSE /\ ExactFractionAndSeparators(fmt.out, fmt.displayDecimals)
             /\ NotAboveAmount(fmt.out, fmt.amount, fmt.displayDecimals)


\* C25: when only accountsChanged notifications carrying accounts have been
\* handled (the probe found no authorised account) and every initializeWallet
\* run they started has finished, the Session is connected with the
\* provider's current first account and the provider's current chain.
C25_AccountSyncConverges ==
    (RunsInFlight = 0 /\ probe = "done" /\ notified = "accounts") =>
        /\ isConnected
        /\ address = provAccounts[1]
        /\ chainId = parseInt16(provChain)

\* A step of the page-load probe: checkExistingConnection moves, or the
\* initializeWallet it called does
ProbeStep == probe' # probe \/ init'[ProbeCaller] # init[ProbeCaller]
\* The probe ends in failure: eth_accounts rejects, or its initializeWallet throws
ProbeFails ==
    /\ probe # "done" /\ probe' = "done"
    /\ ~(probe = "eth_accounts" /\ Len(provAccounts) = 0 /\ init' = init)
    /\ ~(probe = "initializeWallet" /\ init[ProbeCaller].pc = "getNetwork" /\ isConnected')

\* C26: the page-load probe sends eth_accounts only: none of its steps adds a
\* request (eth_requestAccounts or a chain switch) to those connect and
\* switchToHemi sent.  It calls initializeWallet only when eth_accounts
\* returned accounts, and a probe step connects the Session only by the
\* probe's initializeWallet completing with the accounts it read.  When
\* eth_accounts rejects or the initialization throws, nothing is thrown to a
\* caller, no step of the failing probe connects the Session, and a failed
\* initialization leaves it unconnected.
C26_ProbeIsPassive ==
    [][ProbeStep =>
          /\ conn' = conn /\ sw' = sw
          /\ probe \in {"eth_accounts", "initializeWallet"}
          /\ (probe = "eth_accounts" /\ probe' = "initializeWallet" => Len(provAccounts) > 0)
          /\ (isConnected' /\ ~isConnected =>
                 /\ probe = "initializeWallet" /\ probe' = "done"
                 /\ init[ProbeCaller].pc = "getNetwork"
                 /\ Len(init[ProbeCaller].accounts) > 0
                 /\ address' = init[ProbeCaller].accounts[1])
          /\ (ProbeFails =>
                 /\ (~isConnected => ~isConnected')
                 /\ (probe = "initializeWallet" => Session' = resetWalletState))]_vars

\* The probe alone has connected the Session: no connect, no switch, no
\* handler run, and the Session holds the provider's first account
C26_Witness ==
    /\ probe = "done" /\ isConnected
    /\ conn = IdleConn /\ sw = [s \in SwCallers |-> IdleSw]
    /\ RunsInFlight = 0 /\ \A a \in AccountLists : runs[a] = 0
    /\ Len(provAccounts) > 0 /\ address = provAccounts[1]
    /\ provider # NULL /\ signer # NULL

\* A workflow trigger of the Foom page is rendered and enabled: the Start
\* button, or the button of step 2, 3 or 4
TriggerEnabled ==
    /\ page = "foom"
    /\ \/ ~hasStartedMinting /\ canStartMinting
       \/ \E k \in 2..4 : stepButton(k)
ActiveSteps == {i \in Steps : mintSteps[i] = "active"}

\* C27: while a workflow action of the Foom page (the balance check,
\* approveHair, approveMax, the mint and its refresh) is in flight, isLoading
\* is true, so no trigger that is enabled only while isLoading is false can
\* start a second one: a trigger is enabled only when no action is in
\* flight.  At most one mint step has status active.
C27_NoReentrancy ==
    /\ (flow.pc # "idle" => fIsLoading)
    /\ (TriggerEnabled => flow.pc = "idle")
    /\ Cardinality(ActiveSteps) <= 1

\* An approval is awaiting its confirmation: its step is the one active
\* step, isLoading is true and no trigger is enabled
C27_Witness ==
    /\ flow.pc = "approveMax.wait"
    /\ fIsLoading
    /\ ActiveSteps = {3}
    /\ ~TriggerEnabled

\* C28: when the free mint's call or its confirmation throws, handleMint
\* classifies the error by a fixed precedence: cancelled when its code is
\* 4001, whatever its message says; otherwise already minted when its
\* message contains 'Only one NFT per address'; otherwise a generic failure
\* that shows the thrown message.  In every case the handler ends there: no
\* mint call is in flight after it and isLoading is false.
C28_MintErrorPrecedence ==
    [][(wMint.pc \in {"mint", "wait"} /\ wMint'.error # NoError) =>
          LET error == wMint'.error IN
          /\ wMint'.outcome =
                (IF error.code = 4001 THEN "cancelled"
                 ELSE IF includes(error.message, <<"Only", "one", "NFT", "per", "address">>)
                 THEN "alreadyMintedByContract"
                 ELSE "failed")
          /\ (wMint'.outcome = "failed" /\ error.message # << >> =>
                 wMint'.shown = error.message)
          /\ wMint'.pc = "idle"
          /\ wIsLoading' = FALSE
          /\ owned' = owned]_vars

\* A refusal (code 4001) whose message quotes the one-per-wallet rule has
\* been caught and reported as cancelled
C28_Witness ==
    /\ wMint.pc = "idle"
    /\ wMint.error.code = 4001
    /\ includes(wMint.error.message, ONE_PER_ADDRESS)
    /\ wMint.outcome = "cancelled"
    /\ ~wIsLoading

\* Steps 1, 2 and 3 are complete
PrerequisitesComplete == \A i \in 1..3 : mintSteps[i] = "complete"

\* C29: whenever the mint action is offered (step 4 is pending and the
\* current step is 3), steps 1, 2 and 3 are complete; so while a mint
\* invoked through the button is being submitted or confirmed, none of
\* steps 1, 2 and 3 is pending, active or error.
C29_MintOfferedAfterPrerequisites ==
    /\ (mintSteps[4] = "pending" /\ currentStep = 3 => PrerequisitesComplete)
    /\ (flow.pc \in {"mint.mint", "mint.wait"} => PrerequisitesComplete)

\* The mint, reached through both approvals, has been invoked and sent
C29_Witness ==
    /\ flow.pc = "mint.wait"
    /\ {"approveHair", "approveMax", "mint"} \subseteq submitted
    /\ mintSteps[4] = "active"
    /\ PrerequisitesComplete

\* C30: in a Session that is unconnected or whose chain is not 43111, a call
\* of startMintProcess changes no step status and starts no chain read, and
\* a call of handleMint submits no mint transaction; all that either does is
\* report: wallet required when unconnected, wrong network otherwise.
C30_GuardsOnlyReport ==
    [][(~isConnected \/ chainId # 43111) =>
          /\ mintSteps' = mintSteps /\ currentStep' = currentStep
          /\ fIsLoading' = fIsLoading /\ stepActions' = stepActions
          /\ hairBalance' = hairBalance /\ maxBalance' = maxBalance
          /\ flow'.pc = "idle" /\ lastCheck' = lastCheck
          /\ wMint'.pc = "idle" /\ wIsLoading' = wIsLoading
          /\ requested' = requested /\ submitted' = submitted
          /\ chain' = chain /\ owned' = owned
          /\ (flow' # flow =>
                 flow'.report = (IF ~isConnected THEN "walletRequired" ELSE "wrongNetwork"))
          /\ (wMint' # wMint =>
                 wMint'.outcome = (IF ~isConnected THEN "walletRequired" ELSE "wrongNetwork"))
      ]_vars

\* startMintProcess has been called in a Session connected to another chain
\* and has reported the wrong network, every step still pending
C30_Witness ==
    /\ page = "foom"
    /\ isConnected /\ chainId # HEMI_CHAIN_ID
    /\ flow.caller = "start" /\ flow.report = "wrongNetwork" /\ flow.pc = "idle"
    /\ \A i \in Steps : mintSteps[i] = "pending"
    /\ ~fIsLoading

====
